---- MODULE Spec2Model ----
(***************************************************************************)
(* Token-burden overlay (src/src/report-view.ts) and its helpers           *)
(* (src/src/utils.ts).                                                     *)
(*                                                                         *)
(* Strings are sequences of UTF-16 code units, so Len is String.length.    *)
(* An optional value (null/undefined in the source) is a sequence of       *)
(* length 0 or 1.                                                          *)
(***************************************************************************)
EXTENDS Integers, Sequences, FiniteSets, TLC

VARIABLES
    parsed,            \* BudgetOverlay.parsed (constructor argument)
    tableItems,        \* BudgetOverlay.tableItems
    mode,              \* state.mode
    selectedIndex,     \* state.selectedIndex
    scrollOffset,      \* state.scrollOffset
    searchActive,      \* state.searchActive
    searchQuery,       \* state.searchQuery
    drilldownSection,  \* state.drilldownSection (Null or Some(item))
    cachedWidth,       \* BudgetOverlay.cachedWidth (Null or Some(width))
    cachedLines,       \* BudgetOverlay.cachedLines (Null or Some(frame))
    closed,            \* TRUE once done(null) has been called
    lastKey,           \* history: data of the latest key event (Null: none)
    prev,              \* history: the overlay when that key arrived
    barSections,       \* buildBarSegments: the sections argument
    barWidth,          \* buildBarSegments: the barWidth argument
    segments,          \* buildBarSegments: the result (Null before the call)
    systemPrompt,      \* parseSystemPrompt: the prompt argument
    parseResult,       \* parseSystemPrompt: the result (Null before the call)
    filterItems,       \* fuzzyFilter: the items argument
    filterQuery,       \* fuzzyFilter: the query argument
    filterResult,      \* fuzzyFilter: the result (Null before the call)
    tableParsed,       \* buildTableItems: the parsed argument
    tableResult,       \* buildTableItems: the result (Null before the call)
    windowTokens,      \* render, zone 1: parsed.totalTokens
    windowSize,        \* render, zone 1: contextWindow (Null: undefined)
    windowWidth,       \* render, zone 1: the width passed to render
    windowBar          \* render, zone 1: the outcome (Null before the call)

state == <<mode, selectedIndex, scrollOffset, searchActive, searchQuery,
           drilldownSection>>

cache == <<cachedWidth, cachedLines>>

\* the variables of the overlay
overlayVars == <<parsed, tableItems, mode, selectedIndex, scrollOffset,
                 searchActive, searchQuery, drilldownSection, cachedWidth,
                 cachedLines, closed, lastKey, prev>>

\* the variables of a call of buildBarSegments
barVars == <<barSections, barWidth, segments>>

\* the variables of a call of parseSystemPrompt
parseVars == <<systemPrompt, parseResult>>

\* the variables of a call of fuzzyFilter
filterVars == <<filterItems, filterQuery, filterResult>>

\* the variables of a call of buildTableItems
tableVars == <<tableParsed, tableResult>>

\* the variables of one rendering of the context-window zone
windowVars == <<windowTokens, windowSize, windowWidth, windowBar>>

vars == <<parsed, tableItems, mode, selectedIndex, scrollOffset, searchActive,
          searchQuery, drilldownSection, cachedWidth, cachedLines, closed,
          lastKey, prev, barSections, barWidth, segments, systemPrompt,
          parseResult, filterItems, filterQuery, filterResult, tableParsed,
          tableResult, windowTokens, windowSize, windowWidth, windowBar>>

Null == <<>>

Some(x) == <<x>>

Min(a, b) == IF a < b THEN a ELSE b

Max(a, b) == IF a > b THEN a ELSE b

(***************************************************************************)
(* Constants of report-view.ts                                             *)
(***************************************************************************)
MAX_VISIBLE_ROWS == 8

OVERLAY_WIDTH == 80

(***************************************************************************)
(* Bounds of the model                                                     *)
(***************************************************************************)
\* longest search query the model lets the user type
MaxQueryLen == 2

\* buildBarSegments is called with up to MaxSections sections, token counts in
\* 0..MaxWeight and a bar width in 0..MaxBarWidth
MaxSections == 4

MaxWeight == 4

MaxBarWidth == 5

(***************************************************************************)
(* Key events.  The terminal primitive matchesKey (pi-tui) is modelled on  *)
(* the legacy escape sequences of the named keys.                          *)
(***************************************************************************)
KeyData(key) ==
    CASE key = "escape"    -> <<27>>
      [] key = "up"        -> <<27, 91, 65>>
      [] key = "down"      -> <<27, 91, 66>>
      [] key = "enter"     -> <<13>>
      [] key = "backspace" -> <<127>>

matchesKey(data, key) == data = KeyData(key)

\* "/", "a", "S", " "
TypedChars == {<<47>>, <<97>>, <<83>>, <<32>>}

\* a control character (tab) and an input of two code units (U+1F600, one
\* printable character outside the BMP; a paste of two characters is alike)
OtherInputs == {<<9>>, <<55357, 56832>>}

Inputs ==
    {KeyData(k) : k \in {"escape", "up", "down", "enter", "backspace"}}
        \cup TypedChars \cup OtherInputs

(***************************************************************************)
(* String helpers (String.prototype.toLowerCase / trim / includes)         *)
(***************************************************************************)
LowerChar(c) == IF c >= 65 /\ c <= 90 THEN c + 32 ELSE c

toLowerCase(s) == [i \in 1..Len(s) |-> LowerChar(s[i])]

\* the ASCII part of ECMAScript WhiteSpace and LineTerminator, and NBSP
IsWhiteSpace(c) == c \in {9, 10, 11, 12, 13, 32, 160}

trim(s) ==
    LET keep == {i \in 1..Len(s) : ~IsWhiteSpace(s[i])}
    IN  IF keep = {} THEN <<>>
        ELSE LET lo == CHOOSE i \in keep : \A j \in keep : i <= j
                 hi == CHOOSE i \in keep : \A j \in keep : i >= j
             IN  SubSeq(s, lo, hi)

includes(text, q) ==
    \E i \in 0..(Len(text) - Len(q)) : SubSeq(text, i + 1, i + Len(q)) = q


(***************************************************************************)
(* utils.ts: fuzzyScore, fuzzyFilter                                       *)
(*                                                                         *)
(* A score is the exact rational num/den of the number the source          *)
(* computes: 100 + (|query| / |text|) * 50 for a substring match, an       *)
(* integer for a subsequence match.                                        *)
(***************************************************************************)
RECURSIVE FuzzyLoop(_, _, _, _, _, _)
\* the for loop of fuzzyScore: i and queryIndex are 0-based as in the source
FuzzyLoop(lowerQuery, lowerText, i, score, queryIndex, consecutiveBonus) ==
    IF i < Len(lowerText) /\ queryIndex < Len(lowerQuery)
    THEN IF lowerText[i + 1] = lowerQuery[queryIndex + 1]
         THEN FuzzyLoop(lowerQuery, lowerText, i + 1,
                        score + 10 + consecutiveBonus, queryIndex + 1,
                        consecutiveBonus + 5)
         ELSE FuzzyLoop(lowerQuery, lowerText, i + 1, score, queryIndex, 0)
    ELSE IF queryIndex = Len(lowerQuery) THEN score ELSE 0

fuzzyScore(query, text) ==
    LET lowerQuery == toLowerCase(query)
        lowerText  == toLowerCase(text)
    IN  IF includes(lowerText, lowerQuery)
        THEN [num |-> 100 * Len(lowerText) + 50 * Len(lowerQuery),
              den |-> Len(lowerText)]
        ELSE [num |-> FuzzyLoop(lowerQuery, lowerText, 0, 0, 0, 0), den |-> 1]

\* a.score > b.score, for scores with positive denominators
ScoreGT(a, b) == a.num * b.den > b.num * a.den

ScorePositive(a) == a.den > 0 /\ a.num > 0

\* the scored entries left in the order of the input
toSortedByScore_Unsorted(s) == s

\* Array.prototype.toSorted((a, b) => b.score - a.score): stable, descending
toSortedByScore(s) ==
    LET Before(i, j) == \/ ScoreGT(s[i].score, s[j].score)
                        \/ (~ScoreGT(s[j].score, s[i].score) /\ i < j)
        Rank(i) == 1 + Cardinality({j \in 1..Len(s) : Before(j, i)})
    IN  [p \in 1..Len(s) |-> s[CHOOSE i \in 1..Len(s) : Rank(i) = p]]

\* fuzzyFilter without the early return for a blank query
fuzzyFilter_NoBlankCheck(items, query) ==
    LET entries == [i \in 1..Len(items) |->
                       [item  |-> items[i],
                        score |-> fuzzyScore(query, items[i].label)]]
        kept    == SelectSeq(entries, LAMBDA e : ScorePositive(e.score))
        scored  == toSortedByScore(kept)
    IN  [i \in 1..Len(scored) |-> scored[i].item]

fuzzyFilter(items, query) ==
    IF trim(query) = <<>>
    THEN items
    ELSE LET entries == [i \in 1..Len(items) |->
                            [item  |-> items[i],
                             score |-> fuzzyScore(query, items[i].label)]]
             kept    == SelectSeq(entries, LAMBDA e : ScorePositive(e.score))
             scored  == toSortedByScore(kept)
         IN  [i \in 1..Len(scored) |-> scored[i].item]

(***************************************************************************)
(* utils.ts: buildBarSegments                                              *)
(*                                                                         *)
(* The proportional width raw[i] = (tokens[i] / totalTokens) * barWidth is *)
(* kept as the exact rational tokens[i] * barWidth / totalTokens; the      *)
(* fractional parts all have the denominator totalTokens and are compared  *)
(* by their numerators.  For the token counts and widths enumerated here   *)
(* IEEE double arithmetic yields the same floors and the same order of the *)
(* fractional parts as the exact quotient.                                 *)
(***************************************************************************)
RECURSIVE SumSeq(_)
\* Array.prototype.reduce((sum, x) => sum + x, 0)
SumSeq(s) == IF s = <<>> THEN 0 ELSE Head(s) + SumSeq(Tail(s))

\* the all-zero branch without handing out the remainder
EvenSplit_NoRemainder(sections, width) ==
    LET baseWidth == width \div Len(sections)
    IN  [i \in 1..Len(sections) |->
            [label |-> sections[i].label, width |-> baseWidth]]

\* the all-zero branch: the remainder goes to the first sections, one each
EvenSplit(sections, width) ==
    LET baseWidth == width \div Len(sections)
        remainder == width - baseWidth * Len(sections)
    IN  [i \in 1..Len(sections) |->
            [label |-> sections[i].label,
             width |-> baseWidth + (IF remainder - (i - 1) > 0 THEN 1 ELSE 0)]]

\* the shortfall loop: widths[fractionals[i % length].index]++, diff times,
\* fractionals being the indices sorted by descending fractional part (stable)
DistributeExtra(fracNum, widths, diff) ==
    LET n == Len(widths)
        Precedes(i, j) == \/ fracNum[i] > fracNum[j]
                          \/ (fracNum[i] = fracNum[j] /\ i < j)
        Rank(i) == Cardinality({j \in 1..n : Precedes(j, i)})
    IN  [i \in 1..n |->
            widths[i] + Cardinality({k \in 0..(diff - 1) : k % n = Rank(i)})]

\* the inner loop of the steal loop: the first index holding the largest width
MaxIdx(widths) ==
    CHOOSE i \in 1..Len(widths) :
        /\ \A j \in 1..Len(widths) : widths[j] <= widths[i]
        /\ \A j \in 1..(i - 1) : widths[j] < widths[i]

RECURSIVE StealFromLargest_Once(_, _)
\* the steal loop leaving after its first iteration
StealFromLargest_Once(widths, count) ==
    IF count <= 0 THEN widths
    ELSE LET maxIdx == MaxIdx(widths)
         IN  IF widths[maxIdx] > 1
             THEN [widths EXCEPT ![maxIdx] = @ - 1]
             ELSE widths

RECURSIVE StealFromLargest(_, _)
\* the steal loop: count times, take 1 from the largest width if it exceeds 1
StealFromLargest(widths, count) ==
    IF count <= 0 THEN widths
    ELSE LET maxIdx == MaxIdx(widths)
         IN  StealFromLargest(
                 IF widths[maxIdx] > 1
                 THEN [widths EXCEPT ![maxIdx] = @ - 1]
                 ELSE widths,
                 count - 1)

buildBarSegments(sections, width) ==
    LET n == Len(sections)
        totalTokens == SumSeq([i \in 1..n |-> sections[i].tokens])
        rawNum == [i \in 1..n |-> sections[i].tokens * width]
        floored == [i \in 1..n |-> Max(1, rawNum[i] \div totalTokens)]
        fracNum == [i \in 1..n |-> rawNum[i] - floored[i] * totalTokens]
        diff == width - SumSeq(floored)
        widths == IF diff > 0 THEN DistributeExtra(fracNum, floored, diff)
                  ELSE IF diff < 0 THEN StealFromLargest(floored, -diff)
                  ELSE floored
    IN  IF n = 0 THEN <<>>
        ELSE IF totalTokens = 0 THEN EvenSplit(sections, width)
        ELSE [i \in 1..n |->
                 [label |-> sections[i].label, width |-> widths[i]]]

(***************************************************************************)
(* parser.ts                                                               *)
(*                                                                         *)
(* String literals of the parser, as code units.                           *)
(***************************************************************************)
\* "\n\n# Project Context\n"
PROJECT_CONTEXT_ANCHOR ==
    <<10, 10, 35, 32, 80, 114, 111, 106, 101, 99, 116, 32, 67, 111, 110,
      116, 101, 120, 116, 10>>

\* "\n\nThe following skills provide specialized instructions"
SKILLS_PREAMBLE_ANCHOR ==
    <<10, 10, 84, 104, 101, 32, 102, 111, 108, 108, 111, 119, 105, 110,
      103, 32, 115, 107, 105, 108, 108, 115, 32, 112, 114, 111, 118, 105,
      100, 101, 32, 115, 112, 101, 99, 105, 97, 108, 105, 122, 101, 100,
      32, 105, 110, 115, 116, 114, 117, 99, 116, 105, 111, 110, 115>>

\* "<available_skills>"
AVAILABLE_SKILLS_OPEN ==
    <<60, 97, 118, 97, 105, 108, 97, 98, 108, 101, 95, 115, 107, 105, 108,
      108, 115, 62>>

\* "</available_skills>"
AVAILABLE_SKILLS_CLOSE ==
    <<60, 47, 97, 118, 97, 105, 108, 97, 98, 108, 101, 95, 115, 107, 105,
      108, 108, 115, 62>>

\* "\nCurrent date and time:"
DATE_LINE_ANCHOR ==
    <<10, 67, 117, 114, 114, 101, 110, 116, 32, 100, 97, 116, 101, 32, 97,
      110, 100, 32, 116, 105, 109, 101, 58>>

\* "- Always read pi"
ALWAYS_READ_PI ==
    <<45, 32, 65, 108, 119, 97, 121, 115, 32, 114, 101, 97, 100, 32, 112,
      105>>

\* "- When working on pi"
WHEN_WORKING_ON_PI ==
    <<45, 32, 87, 104, 101, 110, 32, 119, 111, 114, 107, 105, 110, 103, 32,
      111, 110, 32, 112, 105>>

\* "## /", the fixed part of the heading pattern
HEADING_PREFIX ==
    <<35, 35, 32, 47>>

\* "<skill>"
SKILL_OPEN ==
    <<60, 115, 107, 105, 108, 108, 62>>

\* "</skill>"
SKILL_CLOSE ==
    <<60, 47, 115, 107, 105, 108, 108, 62>>

\* "<name>"
NAME_OPEN ==
    <<60, 110, 97, 109, 101, 62>>

\* "</name>"
NAME_CLOSE ==
    <<60, 47, 110, 97, 109, 101, 62>>

\* "<description>"
DESCRIPTION_OPEN ==
    <<60, 100, 101, 115, 99, 114, 105, 112, 116, 105, 111, 110, 62>>

\* "</description>"
DESCRIPTION_CLOSE ==
    <<60, 47, 100, 101, 115, 99, 114, 105, 112, 116, 105, 111, 110, 62>>

\* "<location>"
LOCATION_OPEN ==
    <<60, 108, 111, 99, 97, 116, 105, 111, 110, 62>>

\* "</location>"
LOCATION_CLOSE ==
    <<60, 47, 108, 111, 99, 97, 116, 105, 111, 110, 62>>

\* "unknown"
UNKNOWN ==
    <<117, 110, 107, 110, 111, 119, 110>>

\* "Base prompt"
LABEL_BASE_PROMPT ==
    <<66, 97, 115, 101, 32, 112, 114, 111, 109, 112, 116>>

\* "AGENTS.md files"
LABEL_AGENTS_FILES ==
    <<65, 71, 69, 78, 84, 83, 46, 109, 100, 32, 102, 105, 108, 101, 115>>

\* "Metadata (date/time, cwd)"
LABEL_METADATA ==
    <<77, 101, 116, 97, 100, 97, 116, 97, 32, 40, 100, 97, 116, 101, 47,
      116, 105, 109, 101, 44, 32, 99, 119, 100, 41>>

\* "SYSTEM.md / APPEND_SYSTEM.md"
LABEL_SYSTEM_MD ==
    <<83, 89, 83, 84, 69, 77, 46, 109, 100, 32, 47, 32, 65, 80, 80, 69, 78,
      68, 95, 83, 89, 83, 84, 69, 77, 46, 109, 100>>

\* "Skills ("
SKILLS_LABEL_HEAD ==
    <<83, 107, 105, 108, 108, 115, 32, 40>>

\* ")"
SKILLS_LABEL_TAIL ==
    <<41>>

\* the least and the greatest element of a non-empty set of integers
SetMin(S) == CHOOSE x \in S : \A y \in S : x <= y

SetMax(S) == CHOOSE x \in S : \A y \in S : x >= y

\* does pattern p occur in s at the 0-based position i
MatchAt(s, p, i) ==
    /\ i >= 0
    /\ i + Len(p) <= Len(s)
    /\ \A k \in 1..Len(p) : s[i + k] = p[k]

\* String.prototype.indexOf(p, from) for from >= 0
indexOfFrom(s, p, from) ==
    LET hits == {i \in from..(Len(s) - Len(p)) : MatchAt(s, p, i)}
    IN  IF hits = {} THEN -1 ELSE SetMin(hits)

\* String.prototype.indexOf(p)
indexOf(s, p) == indexOfFrom(s, p, 0)

\* String.prototype.lastIndexOf(p)
lastIndexOf(s, p) ==
    LET hits == {i \in 0..(Len(s) - Len(p)) : MatchAt(s, p, i)}
    IN  IF hits = {} THEN -1 ELSE SetMax(hits)

\* String.prototype.slice(start, end) for start >= 0 and end >= 0
slice(s, start, end) ==
    IF Min(end, Len(s)) <= start THEN <<>>
    ELSE SubSeq(s, start + 1, Min(end, Len(s)))

\* String.prototype.slice(start) for start >= 0
sliceFrom(s, start) == slice(s, start, Len(s))

RECURSIVE String(_)
\* String(n) for an integer n >= 0: its decimal digits
String(n) ==
    IF n < 10 THEN <<48 + n>>
    ELSE String(n \div 10) \o <<48 + (n % 10)>>

\* LineTerminator of the regular-expression grammar: what "." does not match
\* and what "^" and "$" with the m flag look for
IsLineTerminator(c) == c \in {10, 13, 8232, 8233}

\* "^" with the m flag at the 0-based position i
IsLineStart(s, i) == i = 0 \/ IsLineTerminator(s[i])

\* the position where the line holding position i ends: where ".+$" stops
LineEnd(s, i) ==
    SetMin({j \in i..Len(s) : j = Len(s) \/ IsLineTerminator(s[j + 1])})

IsLetter(c) == (65 <= c /\ c <= 90) \/ (97 <= c /\ c <= 122)

\* The tokenizer (encode of gpt-tokenizer, o200k_base) is a library outside
\* the repository.  In its place: a maximal run of ASCII letters is one token
\* and every other code unit is one token.  Like the BPE count it is
\* deterministic, 0 for the empty string, and not additive over concatenation.
estimateTokens(text) ==
    Cardinality({i \in 1..Len(text) :
        \/ ~IsLetter(text[i])
        \/ i = 1
        \/ ~IsLetter(text[i - 1])})

measure(label, text) ==
    [label |-> label, chars |-> Len(text), tokens |-> estimateTokens(text)]

RECURSIVE firstPositiveFrom(_, _)
\* the loop of firstPositive, min being the value found so far
firstPositiveFrom(values, min) ==
    IF values = <<>> THEN min
    ELSE LET v == Head(values)
         IN  firstPositiveFrom(Tail(values),
                 IF v >= 0 /\ (min < 0 \/ v < min) THEN v ELSE min)

firstPositive(values) == firstPositiveFrom(values, -1)

\* the 0-based positions where /^- (?:Always read pi|When working on pi).+$/gm
\* matches: at a line start, one of the two prefixes, then at least one more
\* character of the line
piDocsMarkerMatches(prompt) ==
    {i \in 0..Len(prompt) :
        /\ IsLineStart(prompt, i)
        /\ \E p \in {ALWAYS_READ_PI, WHEN_WORKING_ON_PI} :
              /\ MatchAt(prompt, p, i)
              /\ LineEnd(prompt, i) > i + Len(p)}

\* findBasePromptEnd taking any line that starts with a prefix as a match
findBasePromptEnd_BarePrefix(prompt, projectCtxIdx, skillsPreambleIdx, dateLineIdx) ==
    LET matches == {i \in 0..Len(prompt) :
                       /\ IsLineStart(prompt, i)
                       /\ \E p \in {ALWAYS_READ_PI, WHEN_WORKING_ON_PI} :
                             MatchAt(prompt, p, i)}
        lastPiDocsEnd == IF matches = {} THEN -1
                         ELSE LineEnd(prompt, SetMax(matches))
    IN  IF lastPiDocsEnd # -1 THEN lastPiDocsEnd
        ELSE firstPositive(<<projectCtxIdx, skillsPreambleIdx, dateLineIdx>>)

findBasePromptEnd(prompt, projectCtxIdx, skillsPreambleIdx, dateLineIdx) ==
    LET matches == piDocsMarkerMatches(prompt)
        lastPiDocsEnd == IF matches = {} THEN -1
                         ELSE LineEnd(prompt, SetMax(matches))
    IN  IF lastPiDocsEnd # -1 THEN lastPiDocsEnd
        ELSE firstPositive(<<projectCtxIdx, skillsPreambleIdx, dateLineIdx>>)

\* the 0-based positions where /^## (\/.+)$/gm matches, in ascending order
headingMatches(contextBlock) ==
    LET hits == {i \in 0..Len(contextBlock) :
                    /\ IsLineStart(contextBlock, i)
                    /\ MatchAt(contextBlock, HEADING_PREFIX, i)
                    /\ LineEnd(contextBlock, i) > i + Len(HEADING_PREFIX)}
        Rank(i) == Cardinality({j \in hits : j < i})
    IN  [k \in 1..Cardinality(hits) |-> CHOOSE i \in hits : Rank(i) = k - 1]

\* parseAgentsFiles with every block running to the end of the context block
parseAgentsFiles_ToEnd(contextBlock) ==
    LET matches == headingMatches(contextBlock)
    IN  [i \in 1..Len(matches) |->
            LET blockStart == matches[i]
                blockText == sliceFrom(contextBlock, blockStart)
            IN  [path |-> slice(contextBlock, blockStart + 3,
                                LineEnd(contextBlock, blockStart)),
                 chars |-> Len(blockText),
                 tokens |-> estimateTokens(blockText)]]

parseAgentsFiles(contextBlock) ==
    LET matches == headingMatches(contextBlock)
    IN  [i \in 1..Len(matches) |->
            LET blockStart == matches[i]
                blockEnd == IF i + 1 <= Len(matches) THEN matches[i + 1]
                            ELSE Len(contextBlock)
                blockText == slice(contextBlock, blockStart, blockEnd)
            IN  [path |-> slice(contextBlock, blockStart + 3,
                                LineEnd(contextBlock, blockStart)),
                 chars |-> Len(blockText),
                 tokens |-> estimateTokens(blockText)]]

\* the first capture of /<open>([\s\S]*?)<\/close>/ in text, if it matches
firstCapture(text, open, close) ==
    LET a == indexOf(text, open)
        b == IF a = -1 THEN -1 ELSE indexOfFrom(text, close, a + Len(open))
    IN  IF b = -1 THEN Null ELSE Some(slice(text, a + Len(open), b))

\* inner.match(pattern)?.[1]?.trim() ?? fallback
captureOr(text, open, close, fallback) ==
    LET m == firstCapture(text, open, close)
    IN  IF m = Null THEN fallback ELSE trim(m[1])

RECURSIVE parseSkillEntriesFrom(_, _)
\* the matches of /<skill>([\s\S]*?)<\/skill>/g from position pos onwards
parseSkillEntriesFrom(xmlBlock, pos) ==
    LET a == indexOfFrom(xmlBlock, SKILL_OPEN, pos)
        b == IF a = -1 THEN -1
             ELSE indexOfFrom(xmlBlock, SKILL_CLOSE, a + Len(SKILL_OPEN))
        fullEntry == slice(xmlBlock, a, b + Len(SKILL_CLOSE))
        inner == slice(xmlBlock, a + Len(SKILL_OPEN), b)
    IN  IF b = -1 THEN <<>>
        ELSE <<[name |-> captureOr(inner, NAME_OPEN, NAME_CLOSE, UNKNOWN),
                description |->
                    captureOr(inner, DESCRIPTION_OPEN, DESCRIPTION_CLOSE, <<>>),
                location |->
                    captureOr(inner, LOCATION_OPEN, LOCATION_CLOSE, <<>>),
                chars |-> Len(fullEntry),
                tokens |-> estimateTokens(fullEntry)]>>
             \o parseSkillEntriesFrom(xmlBlock, b + Len(SKILL_CLOSE))

parseSkillEntries(xmlBlock) == parseSkillEntriesFrom(xmlBlock, 0)

\* a section without the children property
Leaf(m) ==
    [label |-> m.label, chars |-> m.chars, tokens |-> m.tokens,
     children |-> <<>>]

\* { ...measure(label, text), children }
WithChildren(m, children) ==
    [label |-> m.label, chars |-> m.chars, tokens |-> m.tokens,
     children |-> children]

\* findSkillsSectionEnd without the branch for the XML closing tag
findSkillsSectionEnd_NoXml(availableSkillsEnd, dateLineIdx, promptLength) ==
    IF dateLineIdx # -1 THEN dateLineIdx ELSE promptLength

findSkillsSectionEnd(availableSkillsEnd, dateLineIdx, promptLength) ==
    IF availableSkillsEnd # -1
    THEN availableSkillsEnd + Len(AVAILABLE_SKILLS_CLOSE)
    ELSE IF dateLineIdx # -1 THEN dateLineIdx
    ELSE promptLength

\* the metadata anchor taken at its first occurrence
findDateLine_First(prompt) == indexOf(prompt, DATE_LINE_ANCHOR)

\* const dateLineIdx = prompt.lastIndexOf("\nCurrent date and time:")
findDateLine(prompt) == lastIndexOf(prompt, DATE_LINE_ANCHOR)

\* sections.splice(1, 0, item) putting the item in front
spliceAfterFirst_AtFront(sections, item) == <<item>> \o sections

\* sections.splice(1, 0, item): sections is never empty here
spliceAfterFirst(sections, item) ==
    <<Head(sections)>> \o <<item>> \o Tail(sections)

\* the sections and the skills of parseSystemPrompt
parseSections(prompt) ==
    LET projectCtxIdx == indexOf(prompt, PROJECT_CONTEXT_ANCHOR)
        skillsPreambleIdx == indexOf(prompt, SKILLS_PREAMBLE_ANCHOR)
        availableSkillsStart == indexOf(prompt, AVAILABLE_SKILLS_OPEN)
        availableSkillsEnd == indexOf(prompt, AVAILABLE_SKILLS_CLOSE)
        dateLineIdx == findDateLine(prompt)
        \* 1. Base system prompt
        baseEnd == findBasePromptEnd(prompt, projectCtxIdx,
                                     skillsPreambleIdx, dateLineIdx)
        baseText == IF baseEnd >= 0 THEN slice(prompt, 0, baseEnd) ELSE prompt
        base == <<Leaf(measure(LABEL_BASE_PROMPT, baseText))>>
        \* 2. Project Context / AGENTS.md files
        contextStart == projectCtxIdx + 2
        contextEnd == firstPositive(<<skillsPreambleIdx, dateLineIdx>>)
        contextBlock == IF contextEnd >= 0
                        THEN slice(prompt, contextStart, contextEnd)
                        ELSE sliceFrom(prompt, contextStart)
        agentsFiles == parseAgentsFiles(contextBlock)
        agents ==
            IF projectCtxIdx # -1
            THEN <<WithChildren(measure(LABEL_AGENTS_FILES, contextBlock),
                       [i \in 1..Len(agentsFiles) |->
                           [label |-> agentsFiles[i].path,
                            chars |-> agentsFiles[i].chars,
                            tokens |-> agentsFiles[i].tokens]])>>
            ELSE <<>>
        \* 3. Skills section
        skillsSectionStart == skillsPreambleIdx + 2
        skillsSectionEnd == findSkillsSectionEnd(availableSkillsEnd,
                                                 dateLineIdx, Len(prompt))
        skillsSectionText == slice(prompt, skillsSectionStart, skillsSectionEnd)
        skills ==
            IF /\ skillsPreambleIdx # -1
               /\ availableSkillsStart # -1
               /\ availableSkillsEnd # -1
            THEN parseSkillEntries(
                     slice(prompt, availableSkillsStart,
                           availableSkillsEnd + Len(AVAILABLE_SKILLS_CLOSE)))
            ELSE <<>>
        skillsSection ==
            IF skillsPreambleIdx # -1
            THEN <<WithChildren(
                       measure(SKILLS_LABEL_HEAD \o String(Len(skills))
                                   \o SKILLS_LABEL_TAIL,
                               skillsSectionText),
                       [i \in 1..Len(skills) |->
                           [label |-> skills[i].name,
                            chars |-> skills[i].chars,
                            tokens |-> skills[i].tokens]])>>
            ELSE <<>>
        \* 4. Metadata footer
        metadata ==
            IF dateLineIdx # -1
            THEN <<Leaf(measure(LABEL_METADATA,
                                sliceFrom(prompt, dateLineIdx + 1)))>>
            ELSE <<>>
        pushed == base \o agents \o skillsSection \o metadata
        \* 5. Detect SYSTEM.md / APPEND_SYSTEM.md gap
        nextSectionStart == IF projectCtxIdx = -1 THEN skillsPreambleIdx
                            ELSE projectCtxIdx
        trimmed == trim(slice(prompt, baseEnd, nextSectionStart))
        sections ==
            IF /\ baseEnd >= 0
               /\ nextSectionStart >= 0
               /\ nextSectionStart > baseEnd
               /\ Len(trimmed) > 0
            THEN spliceAfterFirst(pushed,
                                  Leaf(measure(LABEL_SYSTEM_MD, trimmed)))
            ELSE pushed
    IN  [sections |-> sections, skills |-> skills]

\* the totals taken as the sums over the sections
parseSystemPrompt_TotalsFromSections(prompt) ==
    LET r == parseSections(prompt)
    IN  [sections |-> r.sections,
         totalChars |->
             SumSeq([i \in 1..Len(r.sections) |-> r.sections[i].chars]),
         totalTokens |->
             SumSeq([i \in 1..Len(r.sections) |-> r.sections[i].tokens]),
         skills |-> r.skills]

parseSystemPrompt(prompt) ==
    LET r == parseSections(prompt)
    IN  [sections |-> r.sections,
         totalChars |-> Len(prompt),
         totalTokens |-> estimateTokens(prompt),
         skills |-> r.skills]

(***************************************************************************)
(* report-view.ts: buildTableItems                                         *)
(***************************************************************************)
\* the items left in the order of the input
toSortedByTokens_Unsorted(s) == s

\* Array.prototype.toSorted((a, b) => b.tokens - a.tokens): stable, descending
toSortedByTokens(s) ==
    LET Before(i, j) == \/ s[i].tokens > s[j].tokens
                        \/ (s[i].tokens = s[j].tokens /\ i < j)
        Rank(i) == 1 + Cardinality({j \in 1..Len(s) : Before(j, i)})
    IN  [p \in 1..Len(s) |-> s[CHOOSE i \in 1..Len(s) : Rank(i) = p]]

\* (tokens / totalTokens) * 100 as an exact rational, 0 when totalTokens is 0
Pct(tokens, totalTokens) ==
    IF totalTokens > 0
    THEN [num |-> tokens * 100, den |-> totalTokens]
    ELSE [num |-> 0, den |-> 1]

\* an absent children list (undefined) is the empty sequence
buildTableItems(p) ==
    LET Child(c) == [label     |-> c.label,
                     tokens    |-> c.tokens,
                     chars     |-> c.chars,
                     pct       |-> Pct(c.tokens, p.totalTokens),
                     drillable |-> FALSE,
                     children  |-> <<>>]
        Item(section) ==
            LET children ==
                    IF Len(section.children) > 0
                    THEN toSortedByTokens(
                             [i \in 1..Len(section.children) |->
                                 Child(section.children[i])])
                    ELSE <<>>
            IN  [label     |-> section.label,
                 tokens    |-> section.tokens,
                 chars     |-> section.chars,
                 pct       |-> Pct(section.tokens, p.totalTokens),
                 drillable |-> Len(children) > 0,
                 children  |-> children]
    IN  toSortedByTokens([i \in 1..Len(p.sections) |-> Item(p.sections[i])])

(***************************************************************************)
(* Parsed prompts handed to the overlay (types.ts: ParsedPrompt), sections *)
(* in the order the parser emits them.                                     *)
(***************************************************************************)
SkillChildren ==
    <<
      \* "tdd"
      [label |-> <<116, 100, 100>>, chars |-> 500, tokens |-> 120],
      \* "git"
      [label |-> <<103, 105, 116>>, chars |-> 810, tokens |-> 200],
      \* "aws"
      [label |-> <<97, 119, 115>>, chars |-> 400, tokens |-> 90],
      \* "sql"
      [label |-> <<115, 113, 108>>, chars |-> 600, tokens |-> 150],
      \* "ssh"
      [label |-> <<115, 115, 104>>, chars |-> 640, tokens |-> 150],
      \* "api"
      [label |-> <<97, 112, 105>>, chars |-> 250, tokens |-> 60],
      \* "css"
      [label |-> <<99, 115, 115>>, chars |-> 1200, tokens |-> 300],
      \* "sass"
      [label |-> <<115, 97, 115, 115>>, chars |-> 330, tokens |-> 80],
      \* "bash"
      [label |-> <<98, 97, 115, 104>>, chars |-> 450, tokens |-> 110],
      \* "rust"
      [label |-> <<114, 117, 115, 116>>, chars |-> 170, tokens |-> 40]
    >>

AgentsChildren ==
    <<
      \* "/a/AGENTS.md"
      [label |-> <<47, 97, 47, 65, 71, 69, 78, 84, 83, 46, 109, 100>>,
       chars |-> 2100, tokens |-> 500],
      \* "/b/AGENTS.md"
      [label |-> <<47, 98, 47, 65, 71, 69, 78, 84, 83, 46, 109, 100>>,
       chars |-> 2900, tokens |-> 700]
    >>

\* base prompt, two AGENTS.md files, ten skills, metadata
ParsedFull ==
    [sections |->
        <<
          \* "Base prompt"
          [label |-> <<66, 97, 115, 101, 32, 112, 114, 111, 109, 112, 116>>,
           chars |-> 4000, tokens |-> 900,
           children |-> <<>>],
          \* "AGENTS.md files"
          [label |-> <<65, 71, 69, 78, 84, 83, 46, 109, 100, 32, 102, 105, 108, 101, 115>>,
           chars |-> 5000, tokens |-> 1200,
           children |-> AgentsChildren],
          \* "Skills (10)"
          [label |-> <<83, 107, 105, 108, 108, 115, 32, 40, 49, 48, 41>>,
           chars |-> 6200, tokens |-> 1500,
           children |-> SkillChildren],
          \* "Metadata (date/time, cwd)"
          [label |-> <<77, 101, 116, 97, 100, 97, 116, 97, 32, 40, 100, 97, 116, 101, 47, 116, 105, 109, 101, 44, 32, 99, 119, 100, 41>>,
           chars |-> 90, tokens |-> 30,
           children |-> <<>>]
        >>,
     totalChars  |-> 15300,
     totalTokens |-> 3640]

\* a minimal prompt: base text and a metadata line
ParsedMinimal ==
    [sections |->
        <<
          \* "Base prompt"
          [label |-> <<66, 97, 115, 101, 32, 112, 114, 111, 109, 112, 116>>,
           chars |-> 400, tokens |-> 90,
           children |-> <<>>],
          \* "Metadata (date/time, cwd)"
          [label |-> <<77, 101, 116, 97, 100, 97, 116, 97, 32, 40, 100, 97, 116, 101, 47, 116, 105, 109, 101, 44, 32, 99, 119, 100, 41>>,
           chars |-> 90, tokens |-> 30,
           children |-> <<>>]
        >>,
     totalChars  |-> 492,
     totalTokens |-> 121]

ParsedPrompts == {ParsedFull, ParsedMinimal}

(***************************************************************************)
(* report-view.ts: BudgetOverlay                                           *)
(***************************************************************************)
\* no call of buildBarSegments is being followed
BarIdle ==
    /\ barSections = <<>>
    /\ barWidth = 0
    /\ segments = Null

\* no call of fuzzyFilter is being followed
FilterIdle ==
    /\ filterItems = <<>>
    /\ filterQuery = <<>>
    /\ filterResult = Null

\* no call of buildTableItems is being followed
TableIdle ==
    /\ tableParsed = Null
    /\ tableResult = Null

\* no rendering of the context-window zone is being followed
WindowIdle ==
    /\ windowTokens = 0
    /\ windowSize = Null
    /\ windowWidth = 0
    /\ windowBar = Null

\* no call of parseSystemPrompt is being followed
ParseIdle ==
    /\ systemPrompt = <<>>
    /\ parseResult = Null

Init ==
    /\ parsed \in ParsedPrompts
    /\ tableItems = buildTableItems(parsed)
    /\ mode = "sections"
    /\ selectedIndex = 0
    /\ scrollOffset = 0
    /\ searchActive = FALSE
    /\ searchQuery = <<>>
    /\ drilldownSection = Null
    /\ cachedWidth = Null
    /\ cachedLines = Null
    /\ closed = FALSE
    /\ lastKey = Null
    /\ prev = Null
    /\ BarIdle
    /\ ParseIdle
    /\ FilterIdle
    /\ TableIdle
    /\ WindowIdle

invalidate ==
    /\ cachedWidth' = Null
    /\ cachedLines' = Null

\* this.done(null)
done == closed' = TRUE

\* baseItems of getVisibleItems
BaseItems ==
    IF mode = "drilldown"
    THEN (IF drilldownSection # Null THEN drilldownSection[1].children
          ELSE <<>>)
    ELSE tableItems

getVisibleItems ==
    IF searchActive /\ searchQuery # <<>>
    THEN fuzzyFilter(BaseItems, searchQuery)
    ELSE BaseItems

\* moveSelection stopping at the ends of the list instead of wrapping
moveSelection_Clamped(delta) ==
    LET items == getVisibleItems
        moved == selectedIndex + delta
        next == Max(0, Min(moved, Len(items) - 1))
    IN  IF Len(items) = 0
        THEN UNCHANGED <<state, cache, closed>>
        ELSE /\ selectedIndex' = next
             /\ scrollOffset' =
                    IF next < scrollOffset
                    THEN next
                    ELSE IF next >= scrollOffset + MAX_VISIBLE_ROWS
                         THEN next - MAX_VISIBLE_ROWS + 1
                         ELSE scrollOffset
             /\ invalidate
             /\ UNCHANGED <<mode, searchActive, searchQuery, drilldownSection,
                            closed>>

\* moveSelection scrolling one row too far when the selection leaves the bottom
moveSelection_ScrollsTooFar(delta) ==
    LET items == getVisibleItems
        moved == selectedIndex + delta
        wrapUp == IF moved < 0 THEN Len(items) - 1 ELSE moved
        next == IF wrapUp >= Len(items) THEN 0 ELSE wrapUp
    IN  IF Len(items) = 0
        THEN UNCHANGED <<state, cache, closed>>
        ELSE /\ selectedIndex' = next
             /\ scrollOffset' =
                    IF next < scrollOffset
                    THEN next
                    ELSE IF next >= scrollOffset + MAX_VISIBLE_ROWS
                         THEN next - MAX_VISIBLE_ROWS + 2
                         ELSE scrollOffset
             /\ invalidate
             /\ UNCHANGED <<mode, searchActive, searchQuery, drilldownSection,
                            closed>>

moveSelection(delta) ==
    LET items == getVisibleItems
        moved == selectedIndex + delta
        wrapUp == IF moved < 0 THEN Len(items) - 1 ELSE moved
        next == IF wrapUp >= Len(items) THEN 0 ELSE wrapUp
    IN  IF Len(items) = 0
        THEN UNCHANGED <<state, cache, closed>>
        ELSE /\ selectedIndex' = next
             /\ scrollOffset' =
                    IF next < scrollOffset
                    THEN next
                    ELSE IF next >= scrollOffset + MAX_VISIBLE_ROWS
                         THEN next - MAX_VISIBLE_ROWS + 1
                         ELSE scrollOffset
             /\ invalidate
             /\ UNCHANGED <<mode, searchActive, searchQuery, drilldownSection,
                            closed>>

\* drillIn without the test of the selected item's drillable flag
drillIn_AnyRow ==
    LET items == getVisibleItems
    IN  IF mode # "sections"
        THEN UNCHANGED <<state, cache, closed>>
        ELSE IF ~(/\ selectedIndex >= 0
                  /\ selectedIndex < Len(items))
        THEN UNCHANGED <<state, cache, closed>>
        ELSE /\ mode' = "drilldown"
             /\ drilldownSection' = Some(items[selectedIndex + 1])
             /\ selectedIndex' = 0
             /\ scrollOffset' = 0
             /\ searchActive' = FALSE
             /\ searchQuery' = <<>>
             /\ invalidate
             /\ UNCHANGED closed

\* drillIn keeping the selection of the top-level list
drillIn_KeepsSelection ==
    LET items == getVisibleItems
    IN  IF mode # "sections"
        THEN UNCHANGED <<state, cache, closed>>
        ELSE IF ~(/\ selectedIndex >= 0
                  /\ selectedIndex < Len(items)
                  /\ items[selectedIndex + 1].drillable)
        THEN UNCHANGED <<state, cache, closed>>
        ELSE /\ mode' = "drilldown"
             /\ drilldownSection' = Some(items[selectedIndex + 1])
             /\ scrollOffset' = 0
             /\ searchActive' = FALSE
             /\ searchQuery' = <<>>
             /\ invalidate
             /\ UNCHANGED <<selectedIndex, closed>>

\* items[selectedIndex] is undefined when the index is outside the list
drillIn ==
    LET items == getVisibleItems
    IN  IF mode # "sections"
        THEN UNCHANGED <<state, cache, closed>>
        ELSE IF ~(/\ selectedIndex >= 0
                  /\ selectedIndex < Len(items)
                  /\ items[selectedIndex + 1].drillable)
        THEN UNCHANGED <<state, cache, closed>>
        ELSE /\ mode' = "drilldown"
             /\ drilldownSection' = Some(items[selectedIndex + 1])
             /\ selectedIndex' = 0
             /\ scrollOffset' = 0
             /\ searchActive' = FALSE
             /\ searchQuery' = <<>>
             /\ invalidate
             /\ UNCHANGED closed

\* Escape going back without resetting the scroll offset
EscapeKey_KeepsScroll ==
    IF mode = "drilldown"
    THEN /\ mode' = "sections"
         /\ drilldownSection' = Null
         /\ selectedIndex' = 0
         /\ invalidate
         /\ UNCHANGED <<scrollOffset, searchActive, searchQuery, closed>>
    ELSE /\ done
         /\ UNCHANGED <<state, cache>>

\* Escape closing the overlay from a drill-down as well
EscapeKey_ClosesFromDrilldown ==
    /\ done
    /\ UNCHANGED <<state, cache>>

\* handleInput, Escape with search inactive
EscapeKey ==
    IF mode = "drilldown"
    THEN /\ mode' = "sections"
         /\ drilldownSection' = Null
         /\ selectedIndex' = 0
         /\ scrollOffset' = 0
         /\ invalidate
         /\ UNCHANGED <<searchActive, searchQuery, closed>>
    ELSE /\ done
         /\ UNCHANGED <<state, cache>>

\* the "/" branch of handleInput without its call to invalidate
ActivateSearch_KeepsCache ==
    /\ searchActive' = TRUE
    /\ searchQuery' = <<>>
    /\ UNCHANGED cache
    /\ UNCHANGED <<mode, selectedIndex, scrollOffset, drilldownSection, closed>>

\* "/" also moving the selection and the window back to the first row
ActivateSearch_ResetsSelection ==
    /\ searchActive' = TRUE
    /\ searchQuery' = <<>>
    /\ selectedIndex' = 0
    /\ scrollOffset' = 0
    /\ invalidate
    /\ UNCHANGED <<mode, drilldownSection, closed>>

\* handleInput, "/" with search inactive
ActivateSearch ==
    /\ searchActive' = TRUE
    /\ searchQuery' = <<>>
    /\ invalidate
    /\ UNCHANGED <<mode, selectedIndex, scrollOffset, drilldownSection, closed>>

\* Escape in search clearing the query but leaving the search open
SearchEscape_StaysActive ==
    /\ searchQuery' = <<>>
    /\ selectedIndex' = 0
    /\ scrollOffset' = 0
    /\ invalidate
    /\ UNCHANGED <<mode, searchActive, drilldownSection, closed>>

\* Escape with an empty query leaving the drill-down instead of the search
SearchEscape_BackIfEmpty ==
    IF searchQuery = <<>> /\ mode = "drilldown"
    THEN /\ mode' = "sections"
         /\ drilldownSection' = Null
         /\ searchActive' = FALSE
         /\ selectedIndex' = 0
         /\ scrollOffset' = 0
         /\ invalidate
         /\ UNCHANGED <<searchQuery, closed>>
    ELSE /\ searchActive' = FALSE
         /\ searchQuery' = <<>>
         /\ selectedIndex' = 0
         /\ scrollOffset' = 0
         /\ invalidate
         /\ UNCHANGED <<mode, drilldownSection, closed>>

\* handleSearchInput, Escape
SearchEscape ==
    /\ searchActive' = FALSE
    /\ searchQuery' = <<>>
    /\ selectedIndex' = 0
    /\ scrollOffset' = 0
    /\ invalidate
    /\ UNCHANGED <<mode, drilldownSection, closed>>

\* Backspace shortening the query without resetting selection and scroll
SearchBackspace_KeepsSelection ==
    IF Len(searchQuery) > 0
    THEN /\ searchQuery' = SubSeq(searchQuery, 1, Len(searchQuery) - 1)
         /\ invalidate
         /\ UNCHANGED <<mode, selectedIndex, scrollOffset, searchActive,
                        drilldownSection, closed>>
    ELSE UNCHANGED <<state, cache, closed>>

\* handleSearchInput, Backspace
SearchBackspace ==
    IF Len(searchQuery) > 0
    THEN /\ searchQuery' = SubSeq(searchQuery, 1, Len(searchQuery) - 1)
         /\ selectedIndex' = 0
         /\ scrollOffset' = 0
         /\ invalidate
         /\ UNCHANGED <<mode, searchActive, drilldownSection, closed>>
    ELSE UNCHANGED <<state, cache, closed>>

\* the printable-character branch leaving the selection where it was
SearchAppend_KeepsSelection(data) ==
    IF Len(data) = 1 /\ data[1] >= 32
    THEN /\ searchQuery' = searchQuery \o data
         /\ invalidate
         /\ UNCHANGED <<mode, selectedIndex, scrollOffset, searchActive,
                        drilldownSection, closed>>
    ELSE UNCHANGED <<state, cache, closed>>

\* handleSearchInput, the printable-character branch
SearchAppend(data) ==
    IF Len(data) = 1 /\ data[1] >= 32
    THEN /\ searchQuery' = searchQuery \o data
         /\ selectedIndex' = 0
         /\ scrollOffset' = 0
         /\ invalidate
         /\ UNCHANGED <<mode, searchActive, drilldownSection, closed>>
    ELSE UNCHANGED <<state, cache, closed>>

\* handleSearchInput handing Enter to drillIn
handleSearchInput_EnterDrillsIn(data) ==
    IF matchesKey(data, "escape") THEN SearchEscape
    ELSE IF matchesKey(data, "up") THEN moveSelection(-1)
    ELSE IF matchesKey(data, "down") THEN moveSelection(1)
    ELSE IF matchesKey(data, "enter") THEN drillIn
    ELSE IF matchesKey(data, "backspace") THEN SearchBackspace
    ELSE SearchAppend(data)

handleSearchInput(data) ==
    IF matchesKey(data, "escape") THEN SearchEscape
    ELSE IF matchesKey(data, "up") THEN moveSelection(-1)
    ELSE IF matchesKey(data, "down") THEN moveSelection(1)
    ELSE IF matchesKey(data, "backspace") THEN SearchBackspace
    ELSE SearchAppend(data)

handleInput(data) ==
    IF searchActive THEN handleSearchInput(data)
    ELSE IF matchesKey(data, "escape") THEN EscapeKey
    ELSE IF matchesKey(data, "up") THEN moveSelection(-1)
    ELSE IF matchesKey(data, "down") THEN moveSelection(1)
    ELSE IF matchesKey(data, "enter") THEN drillIn
    ELSE IF data = <<47>> THEN ActivateSearch
    ELSE UNCHANGED <<state, cache, closed>>

(***************************************************************************)
(* Rendering.  A frame is the content render() draws for the interactive   *)
(* table: the inner width, the breadcrumb, the search bar, the rows of the *)
(* visible window, the scroll indicator and the footer hints.              *)
(***************************************************************************)
\* Math.round(((selectedIndex + 1) / n) * 10)
ScrollProgress(n) == (20 * (selectedIndex + 1) + n) \div (2 * n)

renderInteractiveTable ==
    LET items == getVisibleItems
        startIdx == scrollOffset
        endIdx == Min(startIdx + MAX_VISIBLE_ROWS, Len(items))
    IN  [breadcrumb |-> IF mode = "drilldown" /\ drilldownSection # Null
                        THEN Some(drilldownSection[1].label) ELSE Null,
         search     |-> IF searchActive THEN Some(searchQuery) ELSE Null,
         rows       |-> IF Len(items) = 0 THEN <<>>
                        ELSE [k \in 1..Max(endIdx - startIdx, 0) |->
                                 [item       |-> items[startIdx + k],
                                  isSelected |->
                                      startIdx + k - 1 = selectedIndex]],
         indicator  |-> IF Len(items) > MAX_VISIBLE_ROWS
                        THEN Some(<<ScrollProgress(Len(items)),
                                    selectedIndex + 1, Len(items)>>)
                        ELSE Null]

RenderFrame(width) ==
    [innerW |-> Min(width, OVERLAY_WIDTH) - 2,
     table  |-> renderInteractiveTable,
     hints  |-> mode]

render(width) ==
    IF cachedLines # Null /\ cachedWidth = Some(width)
    THEN UNCHANGED cache
    ELSE /\ cachedLines' = Some(RenderFrame(width))
         /\ cachedWidth' = Some(width)

(***************************************************************************)
(* showReport: the component handed to the host.  The host delivers one    *)
(* key event or one render/invalidate call at a time, and none once the    *)
(* overlay has signalled completion.  The model lets the query grow to     *)
(* MaxQueryLen characters.                                                 *)
(***************************************************************************)
\* The overlay as a key event finds it: the six fields of OverlayState, the
\* length of the active item list and the item under the selection.
Snapshot ==
    [mode             |-> mode,
     selectedIndex    |-> selectedIndex,
     scrollOffset     |-> scrollOffset,
     searchActive     |-> searchActive,
     searchQuery      |-> searchQuery,
     drilldownSection |-> drilldownSection,
     count            |-> Len(getVisibleItems),
     selected         |-> IF selectedIndex < Len(getVisibleItems)
                          THEN Some(getVisibleItems[selectedIndex + 1])
                          ELSE Null]

\* terminal widths the host renders at
Widths == {60, 100}

KeyEvent(data) ==
    /\ ~closed
    /\ (searchActive /\ data \in TypedChars) => Len(searchQuery) < MaxQueryLen
    /\ handleInput(data)
    /\ lastKey' = Some(data)
    /\ prev' = Some(Snapshot)
    /\ UNCHANGED <<parsed, tableItems, barVars, parseVars, filterVars,
                   tableVars, windowVars>>

Render(width) ==
    /\ ~closed
    /\ render(width)
    /\ UNCHANGED <<parsed, tableItems, state, closed, lastKey, prev, barVars,
                   parseVars, filterVars, tableVars, windowVars>>

Invalidate ==
    /\ ~closed
    /\ invalidate
    /\ UNCHANGED <<parsed, tableItems, state, closed, lastKey, prev, barVars,
                   parseVars, filterVars, tableVars, windowVars>>

Next ==
    \/ \E data \in Inputs : KeyEvent(data)
    \/ \E width \in Widths : Render(width)
    \/ Invalidate

Spec == Init /\ [][Next]_vars

\* the overlay at rest while a single function call is followed
OverlayIdle ==
    /\ parsed = ParsedMinimal
    /\ tableItems = buildTableItems(parsed)
    /\ mode = "sections"
    /\ selectedIndex = 0
    /\ scrollOffset = 0
    /\ searchActive = FALSE
    /\ searchQuery = <<>>
    /\ drilldownSection = Null
    /\ cachedWidth = Null
    /\ cachedLines = Null
    /\ closed = FALSE
    /\ lastKey = Null
    /\ prev = Null

(***************************************************************************)
(* One call of buildBarSegments (renderStackedBar passes the parsed        *)
(* sections' labels and token counts and the width of the bar).            *)
(***************************************************************************)
RECURSIVE SeqsUpTo(_, _)
\* the sequences over S of length at most n
SeqsUpTo(S, n) ==
    IF n = 0 THEN {<<>>}
    ELSE LET shorter == SeqsUpTo(S, n - 1)
         IN  shorter \cup {Append(s, x) : s \in shorter, x \in S}

\* sections labelled "A", "B", ... with the given token counts
BarSectionsOf(tokens) ==
    [i \in 1..Len(tokens) |-> [label |-> <<64 + i>>, tokens |-> tokens[i]]]

InitBar ==
    /\ OverlayIdle
    /\ ParseIdle
    /\ FilterIdle
    /\ TableIdle
    /\ WindowIdle
    /\ barSections \in {BarSectionsOf(w) : w \in SeqsUpTo(0..MaxWeight, MaxSections)}
    /\ barWidth \in 0..MaxBarWidth
    /\ segments = Null

CallBuildBarSegments ==
    /\ segments = Null
    /\ segments' = Some(buildBarSegments(barSections, barWidth))
    /\ UNCHANGED <<overlayVars, barSections, barWidth, parseVars, filterVars,
                   tableVars, windowVars>>

NextBar == CallBuildBarSegments

SpecBar == InitBar /\ [][NextBar]_vars

(***************************************************************************)
(* One call of parseSystemPrompt.  The prompt is a concatenation of at     *)
(* most MaxChunks pieces: plain text, the markers the parser looks for,    *)
(* the two pi-docs prefixes, a heading line and a skills XML block, in any *)
(* order.                                                                  *)
(***************************************************************************)
MaxChunks == 4

\* "x\n"
CHUNK_TEXT == <<120, 10>>

\* "\n"
CHUNK_NEWLINE == <<10>>

\* "## /a\nx\n": a heading line and a line of text under it
CHUNK_HEADING == <<35, 35, 32, 47, 97, 10, 120, 10>>

\* "<available_skills><skill><name>s</name></skill></available_skills>"
CHUNK_SKILLS_XML ==
    AVAILABLE_SKILLS_OPEN \o SKILL_OPEN \o NAME_OPEN \o <<115>> \o NAME_CLOSE
        \o SKILL_CLOSE \o AVAILABLE_SKILLS_CLOSE

Chunks ==
    {CHUNK_TEXT, CHUNK_NEWLINE, ALWAYS_READ_PI, WHEN_WORKING_ON_PI,
     PROJECT_CONTEXT_ANCHOR, CHUNK_HEADING, SKILLS_PREAMBLE_ANCHOR,
     CHUNK_SKILLS_XML, DATE_LINE_ANCHOR}

RECURSIVE Concat(_)
Concat(chunks) ==
    IF chunks = <<>> THEN <<>> ELSE Head(chunks) \o Concat(Tail(chunks))

Prompts == {Concat(c) : c \in SeqsUpTo(Chunks, MaxChunks)}

InitParse ==
    /\ OverlayIdle
    /\ BarIdle
    /\ FilterIdle
    /\ TableIdle
    /\ WindowIdle
    /\ systemPrompt \in Prompts
    /\ parseResult = Null

CallParseSystemPrompt ==
    /\ parseResult = Null
    /\ parseResult' = Some(parseSystemPrompt(systemPrompt))
    /\ UNCHANGED <<overlayVars, barVars, systemPrompt, filterVars, tableVars,
                   windowVars>>

NextParse == CallParseSystemPrompt

SpecParse == InitParse /\ [][NextParse]_vars

(***************************************************************************)
(* One call of fuzzyFilter, on up to MaxFilterItems items and a query of   *)
(* up to MaxFilterQueryLen characters.  A query is a piece of one of the   *)
(* query words, so that it is a substring of some labels, a scattered      *)
(* subsequence of others and absent from the rest.                         *)
(***************************************************************************)
MaxFilterItems == 3

MaxFilterQueryLen == 7

\* "abcdefgh", "abcdefxg", "ABC", "abc", "gfedcba"
FilterLabels ==
    {<<97, 98, 99, 100, 101, 102, 103, 104>>,
     <<97, 98, 99, 100, 101, 102, 120, 103>>,
     <<65, 66, 67>>,
     <<97, 98, 99>>,
     <<103, 102, 101, 100, 99, 98, 97>>}

\* "abcdefg", "ACE", " a"
QueryWords ==
    {<<97, 98, 99, 100, 101, 102, 103>>,
     <<65, 67, 69>>,
     <<32, 97>>}

\* the contiguous pieces of a word, the empty one included
Pieces(w) == {SubSeq(w, i, j) : i \in 1..Len(w), j \in 0..Len(w)}

FilterQueries ==
    {q \in UNION {Pieces(w) : w \in QueryWords} :
        Len(q) <= MaxFilterQueryLen}

InitFilter ==
    /\ OverlayIdle
    /\ BarIdle
    /\ ParseIdle
    /\ TableIdle
    /\ WindowIdle
    /\ filterItems \in
           {[i \in 1..Len(ls) |-> [label |-> ls[i]]] :
                ls \in SeqsUpTo(FilterLabels, MaxFilterItems)}
    /\ filterQuery \in FilterQueries
    /\ filterResult = Null

CallFuzzyFilter ==
    /\ filterResult = Null
    /\ filterResult' = Some(fuzzyFilter(filterItems, filterQuery))
    /\ UNCHANGED <<overlayVars, barVars, parseVars, filterItems, filterQuery,
                   tableVars, windowVars>>

NextFilter == CallFuzzyFilter

SpecFilter == InitFilter /\ [][NextFilter]_vars

(***************************************************************************)
(* One call of buildTableItems, on a parsed prompt of up to                *)
(* MaxTableSections sections in any order, each with up to                 *)
(* MaxTableChildren children, token counts in 0..MaxTableTokens.  The      *)
(* i-th section is labelled with the i-th capital letter and the k-th      *)
(* child of a section with the k-th small letter.                          *)
(***************************************************************************)
MaxTableSections == 3

MaxTableChildren == 2

MaxTableTokens == 1

\* a section: its own token count and those of its children
SectionShapes ==
    [tokens : 0..MaxTableTokens,
     children : SeqsUpTo(0..MaxTableTokens, MaxTableChildren)]

ParsedOf(shapes) ==
    [sections |->
        [i \in 1..Len(shapes) |->
            [label |-> <<64 + i>>,
             chars |-> 4 * shapes[i].tokens,
             tokens |-> shapes[i].tokens,
             children |->
                 [k \in 1..Len(shapes[i].children) |->
                     [label |-> <<96 + k>>,
                      chars |-> 4 * shapes[i].children[k],
                      tokens |-> shapes[i].children[k]]]]],
     totalChars |-> 4 * SumSeq([i \in 1..Len(shapes) |-> shapes[i].tokens]),
     totalTokens |-> SumSeq([i \in 1..Len(shapes) |-> shapes[i].tokens])]

InitTable ==
    /\ OverlayIdle
    /\ BarIdle
    /\ ParseIdle
    /\ FilterIdle
    /\ WindowIdle
    /\ tableParsed \in
           {Some(ParsedOf(s)) : s \in SeqsUpTo(SectionShapes, MaxTableSections)}
    /\ tableResult = Null

CallBuildTableItems ==
    /\ tableResult = Null
    /\ tableResult' = Some(buildTableItems(tableParsed[1]))
    /\ UNCHANGED <<overlayVars, barVars, parseVars, filterVars, tableParsed,
                   windowVars>>

NextTable == CallBuildTableItems

SpecTable == InitTable /\ [][NextTable]_vars

(***************************************************************************)
(* report-view.ts: the context-window usage bar (zone 1 of the frame).     *)
(*                                                                         *)
(* SpecWindowBar follows one rendering of the zone: an overlay constructed *)
(* with a prompt of windowTokens tokens and the context window windowSize  *)
(* (Null when none is supplied) is rendered at windowWidth columns.  The   *)
(* quotient (pct / 100) * barWidth is kept as the exact rational           *)
(* totalTokens * barWidth / contextWindow; for the values enumerated here  *)
(* Math.round of the IEEE double gives the same integer.  The label row    *)
(* above the bar is text only and is left out.                             *)
(***************************************************************************)
MaxWindowTokens == 4
MaxWindowSize == 3

\* widths at which the title border can be drawn (innerW >= 14), below and
\* above OVERLAY_WIDTH
WindowWidths == {16, 60, 100}

\* Math.round of the non-negative rational num / den: halves round up
MathRound(num, den) == (2 * num + den) \div (2 * den)

\* the two runs of the bar; "x".repeat(count) throws a RangeError for a
\* negative count, and the frame is then not rendered
renderContextWindowBar(totalTokens, contextWindow, innerW) ==
    LET usageBarWidth == innerW - 4
        filled == Max(1, MathRound(totalTokens * usageBarWidth, contextWindow))
        empty == usageBarWidth - filled
    IN  [outcome |-> IF filled < 0 \/ empty < 0 THEN "RangeError" ELSE "bar",
         filled |-> filled,
         empty |-> empty]

\* render up to zone 1: `if (this.contextWindow)` is false for undefined
\* and for 0
renderZone1(totalTokens, contextWindow, width) ==
    LET innerW == Min(width, OVERLAY_WIDTH) - 2
    IN  IF contextWindow # Null /\ contextWindow[1] # 0
        THEN renderContextWindowBar(totalTokens, contextWindow[1], innerW)
        ELSE [outcome |-> "omitted", filled |-> 0, empty |-> 0]

InitWindow ==
    /\ OverlayIdle
    /\ BarIdle
    /\ ParseIdle
    /\ FilterIdle
    /\ TableIdle
    /\ windowTokens \in 0..MaxWindowTokens
    /\ windowSize \in {Null} \cup {Some(n) : n \in 0..MaxWindowSize}
    /\ windowWidth \in WindowWidths
    /\ windowBar = Null

CallRenderZone1 ==
    /\ windowBar = Null
    /\ windowBar' = Some(renderZone1(windowTokens, windowSize, windowWidth))
    /\ UNCHANGED <<overlayVars, barVars, parseVars, filterVars, tableVars,
                   windowTokens, windowSize, windowWidth>>

NextWindow == CallRenderZone1

SpecWindowBar == InitWindow /\ [][NextWindow]_vars

(***************************************************************************)
(* Properties of the overlay state machine.  lastKey and prev describe the *)
(* latest key event: Key(k) is "the latest key was k", Before is the       *)
(* overlay as that key found it, and the unprimed state variables are what *)
(* the key left behind (render and invalidate do not touch them).          *)
(***************************************************************************)
Key(k) == Some(KeyData(k))

Before == prev[1]

\* the six fields of OverlayState are what they were when the key arrived
StateUnchanged ==
    /\ mode = Before.mode
    /\ selectedIndex = Before.selectedIndex
    /\ scrollOffset = Before.scrollOffset
    /\ searchActive = Before.searchActive
    /\ searchQuery = Before.searchQuery
    /\ drilldownSection = Before.drilldownSection

\* the key arrived in mode `sections` with a drillable item under the selection
EnterOnDrillable ==
    /\ lastKey = Key("enter")
    /\ Before.mode = "sections"
    /\ Before.selected # Null
    /\ Before.selected[1].drillable

DrilledIntoSelected ==
    /\ mode = "drilldown"
    /\ drilldownSection = Before.selected
    /\ selectedIndex = 0
    /\ scrollOffset = 0
    /\ searchActive = FALSE
    /\ searchQuery = <<>>

\* C1 as stated: in mode `sections`, Enter on a drillable selected item always
\* ends in mode `drilldown` on that item with selection, scroll and search
\* reset, whether or not a search was active when Enter was pressed.
C1_EnterAlwaysDrillsIn == EnterOnDrillable => DrilledIntoSelected

\* C1 amended: in mode `sections` with search inactive, Enter on a drillable
\* selected item ends in mode `drilldown` with drilldownSection that item,
\* selectedIndex = 0, scrollOffset = 0, searchActive = FALSE and an empty query.
C1_EnterDrillsIn ==
    (EnterOnDrillable /\ ~Before.searchActive) => DrilledIntoSelected

\* Enter drilled into the second row of the top-level list
C1_Witness ==
    /\ EnterOnDrillable
    /\ ~Before.searchActive
    /\ Before.selectedIndex = 1
    /\ mode = "drilldown"
    /\ drilldownSection = Before.selected

\* C2: in mode `drilldown` with search inactive, Escape sets mode to `sections`,
\* drilldownSection to none, selectedIndex and scrollOffset to 0, and does not
\* signal closure.
C2_EscapeLeavesDrilldown ==
    (/\ lastKey = Key("escape")
     /\ Before.mode = "drilldown"
     /\ ~Before.searchActive)
        => /\ mode = "sections"
           /\ drilldownSection = Null
           /\ selectedIndex = 0
           /\ scrollOffset = 0
           /\ ~closed

\* Escape went back from a drill-down whose selection and window had moved
C2_Witness ==
    /\ lastKey = Key("escape")
    /\ Before.mode = "drilldown"
    /\ ~Before.searchActive
    /\ Before.scrollOffset > 0
    /\ mode = "sections"

\* C3: done is called by a key event iff the key is Escape, received in mode
\* `sections` with search inactive; that Escape leaves the overlay state as it
\* was.
C3_CloseOnlyByEscapeInSections ==
    /\ closed <=> (/\ lastKey = Key("escape")
                   /\ Before.mode = "sections"
                   /\ ~Before.searchActive)
    /\ closed => StateUnchanged

\* the overlay was closed with the selection away from the first row
C3_Witness ==
    /\ closed
    /\ lastKey = Key("escape")
    /\ selectedIndex > 0

SlashWithoutSearch == lastKey = Some(<<47>>) /\ ~Before.searchActive

\* C5 as stated: with search inactive, `/` sets searchActive = TRUE and
\* searchQuery = '' and resets selectedIndex and scrollOffset to 0.
C5_SlashResetsSelection ==
    SlashWithoutSearch
        => /\ searchActive = TRUE
           /\ searchQuery = <<>>
           /\ selectedIndex = 0
           /\ scrollOffset = 0

\* C5 amended: with search inactive, in either mode, `/` sets
\* searchActive = TRUE and searchQuery = '' and leaves selectedIndex,
\* scrollOffset, mode and drilldownSection as they were.
C5_SlashActivatesSearch ==
    SlashWithoutSearch
        => /\ searchActive = TRUE
           /\ searchQuery = <<>>
           /\ selectedIndex = Before.selectedIndex
           /\ scrollOffset = Before.scrollOffset
           /\ mode = Before.mode
           /\ drilldownSection = Before.drilldownSection
           /\ ~closed

\* `/` was pressed in a drill-down scrolled away from the top
C5_Witness ==
    /\ SlashWithoutSearch
    /\ Before.mode = "drilldown"
    /\ Before.scrollOffset > 0
    /\ searchActive

\* a single character at or above the printable threshold that is no named key
LastKeyPrintable ==
    /\ lastKey # Null
    /\ Len(lastKey[1]) = 1
    /\ lastKey[1][1] >= 32
    /\ lastKey # Key("backspace")

\* a single character below the printable threshold that is no named key
LastKeyControl ==
    /\ lastKey # Null
    /\ Len(lastKey[1]) = 1
    /\ lastKey[1][1] < 32
    /\ lastKey \notin {Key("escape"), Key("enter")}

\* an input of several code units that is no named key
LastKeyMultiUnit ==
    /\ lastKey # Null
    /\ Len(lastKey[1]) > 1
    /\ lastKey \notin {Key("up"), Key("down")}

DropLast(s) == SubSeq(s, 1, Len(s) - 1)

QueryEdited ==
    /\ selectedIndex = 0
    /\ scrollOffset = 0
    /\ searchActive = TRUE
    /\ mode = Before.mode
    /\ drilldownSection = Before.drilldownSection

\* C6 as stated: while search is active a printable character is appended to
\* the query and Backspace removes its last character, and after either key
\* selectedIndex = 0 and scrollOffset = 0 with mode and drilldownSection
\* unchanged; a control character that is no named key changes nothing.
C6_EditAlwaysResets ==
    /\ (LastKeyPrintable /\ Before.searchActive)
           => (searchQuery = Before.searchQuery \o lastKey[1] /\ QueryEdited)
    /\ (lastKey = Key("backspace") /\ Before.searchActive)
           => (searchQuery = DropLast(Before.searchQuery) /\ QueryEdited)
    /\ (LastKeyControl /\ Before.searchActive) => StateUnchanged

\* C6 amended: while search is active an input of one code unit >= 32 that is
\* no named key is appended to the query, and Backspace on a non-empty query
\* removes its last character; after either selectedIndex = 0 and
\* scrollOffset = 0 with mode and drilldownSection unchanged.  Backspace on an
\* empty query, a control character that is no named key and an input of
\* several code units that is no named key change nothing.
C6_EditResets ==
    /\ (LastKeyPrintable /\ Before.searchActive)
           => (searchQuery = Before.searchQuery \o lastKey[1] /\ QueryEdited)
    /\ (lastKey = Key("backspace") /\ Before.searchActive)
           => IF Before.searchQuery # <<>>
              THEN searchQuery = DropLast(Before.searchQuery) /\ QueryEdited
              ELSE StateUnchanged
    /\ (LastKeyControl /\ Before.searchActive) => StateUnchanged
    /\ (LastKeyMultiUnit /\ Before.searchActive) => StateUnchanged

\* Backspace shortened a two-character query while a lower row was selected
C6_Witness ==
    /\ lastKey = Key("backspace")
    /\ Before.searchActive
    /\ Len(Before.searchQuery) = 2
    /\ Before.selectedIndex > 0
    /\ Len(searchQuery) = 1

LastKeyArrow == lastKey \in {Key("up"), Key("down")}

\* C7: Up and Down, with search active or not and in either mode, move
\* selectedIndex by one within the active item list, Up from index 0 to the
\* last item and Down from the last item to index 0; on an empty active list
\* they leave the whole state unchanged.
C7_ArrowsWrap ==
    LastKeyArrow
        => IF Before.count = 0
           THEN StateUnchanged
           ELSE /\ lastKey = Key("up")
                       => selectedIndex =
                              IF Before.selectedIndex = 0
                              THEN Before.count - 1
                              ELSE Before.selectedIndex - 1
                /\ lastKey = Key("down")
                       => selectedIndex =
                              IF Before.selectedIndex = Before.count - 1
                              THEN 0
                              ELSE Before.selectedIndex + 1
                /\ mode = Before.mode
                /\ searchActive = Before.searchActive
                /\ searchQuery = Before.searchQuery
                /\ drilldownSection = Before.drilldownSection
                /\ Len(getVisibleItems) = Before.count

\* Up wrapped from the first to the last row of a filtered list
C7_Witness ==
    /\ lastKey = Key("up")
    /\ Before.searchActive
    /\ Before.searchQuery # <<>>
    /\ Before.selectedIndex = 0
    /\ Before.count > 1
    /\ selectedIndex = Before.count - 1

\* C8: the selected row is always inside the window of MAX_VISIBLE_ROWS rows,
\* 0 <= scrollOffset <= selectedIndex < scrollOffset + 8; an Up/Down move sets
\* scrollOffset to the selection if the selection is above the window, to
\* selection - 7 if it is below the window's bottom, and else leaves it.
C8_SelectionInWindow ==
    /\ 0 <= scrollOffset
    /\ scrollOffset <= selectedIndex
    /\ selectedIndex < scrollOffset + 8
    /\ (LastKeyArrow /\ Before.count > 0)
           => scrollOffset =
                  IF selectedIndex < Before.scrollOffset
                  THEN selectedIndex
                  ELSE IF selectedIndex >= Before.scrollOffset + 8
                       THEN selectedIndex - 7
                       ELSE Before.scrollOffset

\* Down moved the selection below the bottom row of the window
C8_Witness ==
    /\ lastKey = Key("down")
    /\ selectedIndex = Before.scrollOffset + 8
    /\ scrollOffset = Before.scrollOffset + 1

RECURSIVE IsSubsequence(_, _)
\* q can be obtained from s by deleting characters
IsSubsequence(q, s) ==
    IF q = <<>> THEN TRUE
    ELSE IF s = <<>> THEN FALSE
    ELSE IF Head(q) = Head(s) THEN IsSubsequence(Tail(q), Tail(s))
    ELSE IsSubsequence(q, Tail(s))

Items(s) == {s[i] : i \in 1..Len(s)}

\* the children of the drilled-into item in drill-down, else the top-level items
BaseList ==
    IF mode = "drilldown" THEN drilldownSection[1].children ELSE tableItems

\* C9: the active item list is the base list (the children of drilldownSection
\* in mode `drilldown`, the top-level items otherwise), passed through the
\* fuzzy matcher when search is active and the query is non-empty; with search
\* inactive or a query that is empty or only whitespace it is exactly the base
\* list, all items in their original order.
C9_ActiveList ==
    /\ (mode = "drilldown") => drilldownSection # Null
    /\ (~searchActive \/ trim(searchQuery) = <<>>)
           => getVisibleItems = BaseList
    /\ (searchActive /\ searchQuery # <<>>)
           => getVisibleItems = fuzzyFilter(BaseList, searchQuery)
    /\ (searchActive /\ trim(searchQuery) # <<>>)
           => /\ Items(getVisibleItems) =
                     {b \in Items(BaseList) :
                          IsSubsequence(toLowerCase(searchQuery),
                                        toLowerCase(b.label))}
              /\ Len(getVisibleItems) = Cardinality(Items(getVisibleItems))

\* a search for a single blank in a drill-down shows all ten children
C9_Witness ==
    /\ searchActive
    /\ searchQuery = <<32>>
    /\ mode = "drilldown"
    /\ Len(getVisibleItems) = 10

\* drillable is "the section has at least one child"; children never are
DrillableMeansChildren ==
    /\ Len(tableItems) = Len(parsed.sections)
    /\ \A item \in Items(tableItems) :
           /\ \E section \in Items(parsed.sections) :
                  /\ section.label = item.label
                  /\ item.drillable <=> Len(section.children) > 0
           /\ \A child \in Items(item.children) : ~child.drillable

\* C10: Enter leaves every field of the overlay state unchanged and signals
\* nothing when the selected item is not drillable, when mode is `drilldown`,
\* or when search is active.
C10_EnterIgnored ==
    /\ DrillableMeansChildren
    /\ (/\ lastKey = Key("enter")
        /\ \/ Before.searchActive
           \/ Before.mode = "drilldown"
           \/ Before.selected = Null
           \/ ~Before.selected[1].drillable)
           => (StateUnchanged /\ ~closed)

\* Enter was pressed on a drillable row while a search was active
C10_Witness ==
    /\ lastKey = Key("enter")
    /\ Before.searchActive
    /\ Before.mode = "sections"
    /\ Before.selected # Null
    /\ Before.selected[1].drillable
    /\ mode = "sections"

(***************************************************************************)
(* Properties of buildBarSegments, over the calls of SpecBar.              *)
(***************************************************************************)
BarReturned == segments # Null

BarWidths == [i \in 1..Len(segments[1]) |-> segments[1][i].width]

BarTotalTokens == SumSeq([i \in 1..Len(barSections) |-> barSections[i].tokens])

\* C11 as stated: for a non-empty list of sections and every width > 0 the
\* returned widths sum to exactly the width, also when the width is smaller
\* than the number of sections; an empty list gives an empty list.
C11_SumAlwaysWidth ==
    BarReturned =>
        /\ Len(barSections) = 0 => segments[1] = <<>>
        /\ (Len(barSections) > 0 /\ barWidth > 0)
               => SumSeq(BarWidths) = barWidth

\* C11 amended: for a non-empty list of sections the returned widths sum to
\* exactly the width when the width is at least the number of sections, and
\* for every width > 0 when all token counts are zero; when some token count is
\* positive and 0 < width < number of sections every width is 1, so the sum is
\* the number of sections.  An empty list gives an empty list.
C11_SumWidth ==
    BarReturned =>
        /\ Len(barSections) = 0 => segments[1] = <<>>
        /\ Len(segments[1]) = Len(barSections)
        /\ (Len(barSections) > 0 /\ barWidth > 0)
               => IF BarTotalTokens = 0 \/ barWidth >= Len(barSections)
                  THEN SumSeq(BarWidths) = barWidth
                  ELSE \A i \in 1..Len(BarWidths) : BarWidths[i] = 1

\* all token counts zero and a width that leaves a remainder
C11_Witness ==
    /\ BarReturned
    /\ Len(barSections) = 3
    /\ BarTotalTokens = 0
    /\ barWidth = 5
    /\ SumSeq(BarWidths) = 5

\* the widths after flooring and raising to 1, before the total is adjusted
FlooredWidths ==
    [i \in 1..Len(barSections) |->
        Max(1, (barSections[i].tokens * barWidth) \div BarTotalTokens)]

\* C12: for a non-empty list of sections, all-zero or not, and a width of at
\* least the number of sections, the returned widths sum to exactly the width
\* and every width is >= 1.
C12_SumAndMinimum ==
    (BarReturned /\ Len(barSections) > 0 /\ barWidth >= Len(barSections))
        => /\ SumSeq(BarWidths) = barWidth
           /\ \A i \in 1..Len(BarWidths) : BarWidths[i] >= 1

\* the minimum of 1 pushed the total two above the width: the steal loop ran
C12_Witness ==
    /\ BarReturned
    /\ BarTotalTokens > 0
    /\ barWidth >= Len(barSections)
    /\ SumSeq(FlooredWidths) >= barWidth + 2
    /\ SumSeq(BarWidths) = barWidth

\* C13: every returned width is >= 1 whenever the width is positive and there
\* is at least one section, whatever the token counts.
C13_EveryWidthAtLeastOne ==
    (BarReturned /\ Len(barSections) > 0 /\ barWidth > 0)
        => \A i \in 1..Len(BarWidths) : BarWidths[i] >= 1

(***************************************************************************)
(* Properties of parseSystemPrompt, over the calls of SpecParse.           *)
(***************************************************************************)
ParseReturned == parseResult # Null

ParseSections == parseResult[1].sections

\* the indices (from 1) of the sections carrying the label
SectionsLabelled(label) ==
    {i \in 1..Len(ParseSections) : ParseSections[i].label = label}

\* the section's chars and tokens are those of the text
Measures(section, text) ==
    /\ section.chars = Len(text)
    /\ section.tokens = estimateTokens(text)

\* the 0-based positions at which the pattern occurs in the prompt
Occurrences(pattern) ==
    {i \in 0..Len(systemPrompt) : MatchAt(systemPrompt, pattern, i)}

SectionCharsSum ==
    SumSeq([i \in 1..Len(ParseSections) |-> ParseSections[i].chars])

SectionTokensSum ==
    SumSeq([i \in 1..Len(ParseSections) |-> ParseSections[i].tokens])

GapAnchors ==
    {indexOf(systemPrompt, PROJECT_CONTEXT_ANCHOR),
     indexOf(systemPrompt, SKILLS_PREAMBLE_ANCHOR)} \ {-1}

\* the text between the end of the Base prompt section, which starts at 0,
\* and the earlier of the two anchors
GapToEarlierAnchor ==
    IF GapAnchors = {} THEN <<>>
    ELSE slice(systemPrompt, ParseSections[1].chars, SetMin(GapAnchors))

\* C16: if the text between the end of the Base prompt section and the
\* earlier of the project-context and skills-preamble anchors holds a
\* non-whitespace character, a "SYSTEM.md / APPEND_SYSTEM.md" section with
\* chars > 0 measuring that trimmed text is at index 1, right after "Base
\* prompt"; if that text is empty or only whitespace there is no such section.
C16_SystemSectionFromGap ==
    ParseReturned =>
        IF trim(GapToEarlierAnchor) # <<>>
        THEN /\ Len(ParseSections) >= 2
             /\ ParseSections[1].label = LABEL_BASE_PROMPT
             /\ ParseSections[2].label = LABEL_SYSTEM_MD
             /\ ParseSections[2].chars > 0
             /\ Measures(ParseSections[2], trim(GapToEarlierAnchor))
        ELSE SectionsLabelled(LABEL_SYSTEM_MD) = {}

\* the 0-based starts of the lines that match the pi-docs pattern: the line
\* begins with one of the two prefixes and goes on for at least one character
PiDocsLines ==
    {i \in 0..Len(systemPrompt) :
        /\ IsLineStart(systemPrompt, i)
        /\ \E p \in {ALWAYS_READ_PI, WHEN_WORKING_ON_PI} :
              /\ MatchAt(systemPrompt, p, i)
              /\ i + Len(p) < Len(systemPrompt)
              /\ ~IsLineTerminator(systemPrompt[i + Len(p) + 1])}

\* the project-context, skills-preamble and metadata anchors found
BaseAnchors ==
    {indexOf(systemPrompt, PROJECT_CONTEXT_ANCHOR),
     indexOf(systemPrompt, SKILLS_PREAMBLE_ANCHOR),
     lastIndexOf(systemPrompt, DATE_LINE_ANCHOR)} \ {-1}

ExpectedBaseEnd ==
    IF PiDocsLines # {} THEN LineEnd(systemPrompt, SetMax(PiDocsLines))
    ELSE IF BaseAnchors # {} THEN SetMin(BaseAnchors)
    ELSE Len(systemPrompt)

SectionLabels == [i \in 1..Len(ParseSections) |-> ParseSections[i].label]

\* the labels due for the anchors found, in the fixed order
ExpectedLabels ==
    <<LABEL_BASE_PROMPT>>
        \o (IF Occurrences(PROJECT_CONTEXT_ANCHOR) # {}
            THEN <<LABEL_AGENTS_FILES>> ELSE <<>>)
        \o (IF Occurrences(SKILLS_PREAMBLE_ANCHOR) # {}
            THEN <<SKILLS_LABEL_HEAD \o String(Len(parseResult[1].skills))
                       \o SKILLS_LABEL_TAIL>>
            ELSE <<>>)
        \o (IF Occurrences(DATE_LINE_ANCHOR) # {}
            THEN <<LABEL_METADATA>> ELSE <<>>)

\* C18: for every input string the call returns a section list whose first
\* element is "Base prompt" and which holds "AGENTS.md files" iff the
\* project-context anchor is found, "Skills (N)" iff the skills-preamble
\* anchor is found and "Metadata (date/time, cwd)" iff the metadata anchor is
\* found, in this relative order wherever the anchors lie; for the empty
\* string it is a single "Base prompt" section with chars = 0 and tokens = 0,
\* and the totals are zero.
C18_SectionsPresentInOrder ==
    ParseReturned =>
        /\ SectionLabels[1] = LABEL_BASE_PROMPT
        /\ SelectSeq(SectionLabels, LAMBDA l : l # LABEL_SYSTEM_MD)
               = ExpectedLabels
        /\ systemPrompt = <<>> =>
               /\ ParseSections =
                      <<[label |-> LABEL_BASE_PROMPT, chars |-> 0,
                         tokens |-> 0, children |-> <<>>]>>
               /\ parseResult[1].totalChars = 0
               /\ parseResult[1].totalTokens = 0

\* the metadata anchor before the skills preamble before the project context,
\* and a gap section: the sections still come in the fixed order
C18_Witness ==
    /\ ParseReturned
    /\ Occurrences(PROJECT_CONTEXT_ANCHOR) # {}
    /\ Occurrences(SKILLS_PREAMBLE_ANCHOR) # {}
    /\ Occurrences(DATE_LINE_ANCHOR) # {}
    /\ SetMax(Occurrences(DATE_LINE_ANCHOR))
           < SetMin(Occurrences(SKILLS_PREAMBLE_ANCHOR))
    /\ SetMin(Occurrences(SKILLS_PREAMBLE_ANCHOR))
           < SetMin(Occurrences(PROJECT_CONTEXT_ANCHOR))
    /\ Len(ParseSections) = 5
    /\ SectionLabels[2] = LABEL_SYSTEM_MD
    /\ SectionLabels[3] = LABEL_AGENTS_FILES
    /\ SectionLabels[5] = LABEL_METADATA

\* the skills-preamble and metadata anchors found
ContextEndAnchors ==
    {indexOf(systemPrompt, SKILLS_PREAMBLE_ANCHOR),
     lastIndexOf(systemPrompt, DATE_LINE_ANCHOR)} \ {-1}

\* the text from just past the project-context anchor's two newlines to the
\* earlier of the skills-preamble and metadata anchors, else to the end of
\* the input; empty when that anchor lies before the start
ContextSlice ==
    slice(systemPrompt,
          indexOf(systemPrompt, PROJECT_CONTEXT_ANCHOR) + 2,
          IF ContextEndAnchors = {} THEN Len(systemPrompt)
          ELSE SetMin(ContextEndAnchors))

\* the 0-based starts of the "## /path" heading lines of a text
HeadingLines(text) ==
    {i \in 0..Len(text) :
        /\ IsLineStart(text, i)
        /\ MatchAt(text, HEADING_PREFIX, i)
        /\ i + Len(HEADING_PREFIX) < Len(text)
        /\ ~IsLineTerminator(text[i + Len(HEADING_PREFIX) + 1])}

\* the k-th smallest of the starts, and the end of the text after the last
HeadingLine(starts, k, end) ==
    IF k > Cardinality(starts) THEN end
    ELSE CHOOSE i \in starts : Cardinality({j \in starts : j < i}) = k - 1

\* C19: when the project-context anchor is found, the children of "AGENTS.md
\* files" are exactly the "## /path" heading lines between that anchor and the
\* earlier of the skills-preamble and metadata anchors (else the end of the
\* input), one child per heading in source order, labelled with the path, each
\* spanning from its heading to the next heading or to the end of the slice,
\* so that the children are contiguous and do not overlap.
C19_AgentsChildren ==
    (ParseReturned /\ Occurrences(PROJECT_CONTEXT_ANCHOR) # {}) =>
        LET text == ContextSlice
            starts == HeadingLines(text)
            At(k) == HeadingLine(starts, k, Len(text))
        IN  /\ Cardinality(SectionsLabelled(LABEL_AGENTS_FILES)) = 1
            /\ \A i \in SectionsLabelled(LABEL_AGENTS_FILES) :
                  LET children == ParseSections[i].children
                  IN  /\ Len(children) = Cardinality(starts)
                      /\ \A k \in 1..Len(children) :
                            /\ children[k].label =
                                   slice(text, At(k) + 3,
                                         LineEnd(text, At(k)))
                            /\ Measures(children[k],
                                        slice(text, At(k), At(k + 1)))
                      /\ starts # {} =>
                            SumSeq([k \in 1..Len(children) |->
                                       children[k].chars])
                                = Len(text) - At(1)

\* two headings, text under the first, and the slice ended by an anchor
C19_Witness ==
    /\ ParseReturned
    /\ Occurrences(PROJECT_CONTEXT_ANCHOR) # {}
    /\ ContextEndAnchors # {}
    /\ LET text == ContextSlice
           starts == HeadingLines(text)
           At(k) == HeadingLine(starts, k, Len(text))
       IN  /\ Cardinality(starts) = 2
           /\ \E i \in SectionsLabelled(LABEL_AGENTS_FILES) :
                 /\ Len(ParseSections[i].children) = 2
                 /\ ParseSections[i].children[1].chars = At(2) - At(1)
                 /\ ParseSections[i].children[1].chars
                        > LineEnd(text, At(1)) - At(1)
                 /\ ParseSections[i].children[2].chars = Len(text) - At(2)
           /\ Len(text) <
                  Len(systemPrompt)
                      - indexOf(systemPrompt, PROJECT_CONTEXT_ANCHOR) - 2

\* the label "Skills (N)", N being the number of skills returned
SkillsLabel ==
    SKILLS_LABEL_HEAD \o String(Len(parseResult[1].skills))
        \o SKILLS_LABEL_TAIL

\* the metadata anchor, or the end of the input when there is none
MetadataAnchorOrEnd ==
    IF Occurrences(DATE_LINE_ANCHOR) # {}
    THEN SetMax(Occurrences(DATE_LINE_ANCHOR))
    ELSE Len(systemPrompt)

\* C20 as stated: when the skills-preamble anchor is found, the "Skills (N)"
\* section measures the text from just past the preamble anchor up to the
\* metadata anchor, or up to the end of the input when there is no metadata
\* anchor.
C20_SkillsUpToMetadata ==
    (ParseReturned /\ Occurrences(SKILLS_PREAMBLE_ANCHOR) # {}) =>
        /\ Cardinality(SectionsLabelled(SkillsLabel)) = 1
        /\ \A i \in SectionsLabelled(SkillsLabel) :
              Measures(ParseSections[i],
                       slice(systemPrompt,
                             SetMin(Occurrences(SKILLS_PREAMBLE_ANCHOR)) + 2,
                             MetadataAnchorOrEnd))

\* C20 amended: when the skills-preamble anchor is found, the "Skills (N)"
\* section measures the text from just past the two newlines that start the
\* preamble anchor up to the end of the first "</available_skills>" in the
\* input if there is one, otherwise up to the metadata anchor, otherwise up to
\* the end of the input; the text is empty when that end lies before the start.
C20_SkillsSectionSpan ==
    (ParseReturned /\ Occurrences(SKILLS_PREAMBLE_ANCHOR) # {}) =>
        /\ Cardinality(SectionsLabelled(SkillsLabel)) = 1
        /\ \A i \in SectionsLabelled(SkillsLabel) :
              Measures(ParseSections[i],
                       slice(systemPrompt,
                             SetMin(Occurrences(SKILLS_PREAMBLE_ANCHOR)) + 2,
                             IF Occurrences(AVAILABLE_SKILLS_CLOSE) # {}
                             THEN SetMin(Occurrences(AVAILABLE_SKILLS_CLOSE))
                                      + Len(AVAILABLE_SKILLS_CLOSE)
                             ELSE MetadataAnchorOrEnd))

\* a skills XML block after the preamble and text after the block: the
\* section stops at the closing tag, short of the metadata anchor or the end
C20_Witness ==
    /\ ParseReturned
    /\ Occurrences(SKILLS_PREAMBLE_ANCHOR) # {}
    /\ Occurrences(AVAILABLE_SKILLS_CLOSE) # {}
    /\ SetMin(Occurrences(SKILLS_PREAMBLE_ANCHOR))
           < SetMin(Occurrences(AVAILABLE_SKILLS_CLOSE))
    /\ Len(parseResult[1].skills) = 1
    /\ \E i \in SectionsLabelled(SkillsLabel) :
          /\ ParseSections[i].chars =
                 SetMin(Occurrences(AVAILABLE_SKILLS_CLOSE))
                     + Len(AVAILABLE_SKILLS_CLOSE)
                     - SetMin(Occurrences(SKILLS_PREAMBLE_ANCHOR)) - 2
          /\ ParseSections[i].chars <
                 MetadataAnchorOrEnd
                     - SetMin(Occurrences(SKILLS_PREAMBLE_ANCHOR)) - 2

(***************************************************************************)
(* Properties of fuzzyFilter, over the calls of SpecFilter.                *)
(***************************************************************************)
FilterReturned == filterResult # Null

\* the query is neither empty nor only whitespace
QueryNotBlank == \E i \in 1..Len(filterQuery) : ~IsWhiteSpace(filterQuery[i])

\* the query is a case-insensitive subsequence of the label
MatchesAsSubsequence(label) ==
    IsSubsequence(toLowerCase(filterQuery), toLowerCase(label))

\* the query is a case-insensitive contiguous substring of the label
MatchesAsSubstring(label) ==
    \E i \in 1..Len(label) : \E j \in i..Len(label) :
        toLowerCase(SubSeq(label, i, j)) = toLowerCase(filterQuery)

\* the positions of the input items whose label the query is a subsequence of
KeptPositions ==
    {i \in 1..Len(filterItems) : MatchesAsSubsequence(filterItems[i].label)}

\* C21: for a query that is not empty or whitespace-only, fuzzyFilter keeps an
\* item iff the query is a case-insensitive subsequence of its label; the
\* result holds only input items, in descending order of score with equal
\* scores in input order, and is empty when no label has the query as a
\* subsequence.
C21_KeepsSubsequenceMatches ==
    (FilterReturned /\ QueryNotBlank) =>
        LET result == filterResult[1]
            Score(i) == fuzzyScore(filterQuery, filterItems[i].label)
        IN  /\ Len(result) = Cardinality(KeptPositions)
            /\ KeptPositions = {} => result = <<>>
            /\ \E f \in [1..Len(result) -> KeptPositions] :
                  /\ \A k \in 1..Len(result) : result[k] = filterItems[f[k]]
                  /\ \A k \in 1..Len(result), l \in 1..Len(result) :
                        k < l =>
                            \/ ScoreGT(Score(f[k]), Score(f[l]))
                            \/ /\ ~ScoreGT(Score(f[l]), Score(f[k]))
                               /\ f[k] < f[l]

\* one item dropped and the two kept ones returned in the opposite order
C21_Witness ==
    /\ FilterReturned
    /\ QueryNotBlank
    /\ Len(filterItems) = 3
    /\ ~MatchesAsSubsequence(filterItems[1].label)
    /\ Len(filterResult[1]) = 2
    /\ filterResult[1][1] = filterItems[3]
    /\ filterResult[1][2] = filterItems[2]
    /\ filterItems[2] # filterItems[3]

\* the positions in the result of the items that satisfy the test
ResultPositions(Test(_)) ==
    {k \in 1..Len(filterResult[1]) : Test(filterResult[1][k].label)}

MatchesOnlyScattered(label) ==
    MatchesAsSubsequence(label) /\ ~MatchesAsSubstring(label)

\* C22: for every non-empty query and every item list, each item whose label
\* contains the query as a case-insensitive contiguous substring is ranked
\* before every item whose label matches the query only as a non-contiguous
\* subsequence.
C22_SubstringBeforeFuzzy ==
    (FilterReturned /\ QueryNotBlank) =>
        \A k \in ResultPositions(MatchesAsSubstring) :
            \A l \in ResultPositions(MatchesOnlyScattered) : k < l

(***************************************************************************)
(* Properties of buildTableItems, over the calls of SpecTable.             *)
(***************************************************************************)
TableReturned == tableResult # Null

\* out holds exactly the entries of in, one item each, with their tokens and
\* chars, in non-increasing order of tokens, equal tokens in the order of in
SortedByTokensFrom(out, in) ==
    /\ Len(out) = Len(in)
    /\ \E f \in [1..Len(out) -> 1..Len(in)] :
          /\ \A k \in 1..Len(out), l \in 1..Len(out) : k # l => f[k] # f[l]
          /\ \A k \in 1..Len(out) :
                /\ out[k].label = in[f[k]].label
                /\ out[k].tokens = in[f[k]].tokens
                /\ out[k].chars = in[f[k]].chars
          /\ \A k \in 1..Len(out), l \in 1..Len(out) :
                k < l =>
                    \/ out[k].tokens > out[l].tokens
                    \/ (out[k].tokens = out[l].tokens /\ f[k] < f[l])

\* C23: buildTableItems returns exactly one item per parsed section, the
\* top-level items in non-increasing order of tokens and every item's
\* children in non-increasing order of tokens, whatever the order of the
\* parsed sections; items with equal tokens keep their parsed order.
C23_ItemsSortedByTokens ==
    TableReturned =>
        /\ SortedByTokensFrom(tableResult[1], tableParsed[1].sections)
        /\ \A k \in 1..Len(tableResult[1]) :
              \A i \in 1..Len(tableParsed[1].sections) :
                  tableResult[1][k].label = tableParsed[1].sections[i].label
                      => SortedByTokensFrom(
                             tableResult[1][k].children,
                             tableParsed[1].sections[i].children)

\* three sections parsed in ascending order with a tie, and a child list
\* parsed in ascending order: both come out re-ordered
C23_Witness ==
    /\ TableReturned
    /\ Len(tableParsed[1].sections) = 3
    /\ tableParsed[1].sections[1].tokens = 0
    /\ tableParsed[1].sections[2].tokens = 1
    /\ tableParsed[1].sections[3].tokens = 1
    /\ tableResult[1][1].label = <<66>>
    /\ tableResult[1][2].label = <<67>>
    /\ tableResult[1][3].label = <<65>>
    /\ Len(tableResult[1][1].children) = 2
    /\ tableResult[1][1].children[1].label = <<98>>
    /\ tableResult[1][1].children[1].tokens = 1
    /\ tableResult[1][1].children[2].tokens = 0

\* ---------------------------------------------------------------------------
\* The frame cache of the overlay
\* ---------------------------------------------------------------------------

\* a cached frame is the frame of the current state at the cached width
CacheIsFresh ==
    cachedLines # Null =>
        /\ cachedWidth # Null
        /\ cachedLines[1] = RenderFrame(cachedWidth[1])

\* C24: in every interleaving of key events, render calls and invalidate
\* calls, render(width) returns the frame computed afresh from the current
\* state and that width: a cached frame is never stale, and every call of
\* render leaves (and returns) exactly RenderFrame(width).
C24_RenderIsCacheFree ==
    /\ [](CacheIsFresh)
    /\ [][\A w \in Widths :
            Render(w) => cachedLines' = Some(RenderFrame(w))]_vars

\* a frame cached after a drill-in and a search edit, i.e. after the state
\* was mutated and rendered again
C24_Witness ==
    /\ cachedLines # Null
    /\ mode = "drilldown"
    /\ searchActive
    /\ Len(searchQuery) > 0
    /\ lastKey # Null
    /\ lastKey[1] \in TypedChars

\* ---------------------------------------------------------------------------
\* Invariants of the overlay state
\* ---------------------------------------------------------------------------

\* C25: in every reachable state whose active item list is non-empty,
\* 0 <= selectedIndex < length of the active item list.
C25_SelectionInRange ==
    LET items == getVisibleItems
    IN  Len(items) > 0 =>
            /\ 0 <= selectedIndex
            /\ selectedIndex < Len(items)

\* the selection on the last row of a list that a query has made shorter
\* than its base list
C25_Witness ==
    LET items == getVisibleItems
    IN  /\ searchActive
        /\ Len(searchQuery) > 0
        /\ Len(items) > 1
        /\ Len(items) < Len(BaseList)
        /\ selectedIndex = Len(items) - 1

\* C26: in every reachable state mode = `drilldown` iff drilldownSection is
\* set, and a set drilldownSection is one of the top-level items, with
\* drillable = TRUE and a non-empty list of children, none of which is
\* drillable itself (drill-down is one level deep).
C26_DrilldownSection ==
    /\ (mode = "drilldown") <=> (drilldownSection # Null)
    /\ drilldownSection # Null =>
           /\ drilldownSection[1] \in Items(tableItems)
           /\ drilldownSection[1].drillable
           /\ Len(drilldownSection[1].children) > 0
           /\ \A child \in Items(drilldownSection[1].children) :
                  ~child.drillable

\* Enter on a drillable row that is not the first of the table opened its
\* children, while the table also holds a row that cannot be drilled into
C26_Witness ==
    /\ lastKey = Key("enter")
    /\ Before.mode = "sections"
    /\ Before.selectedIndex > 0
    /\ mode = "drilldown"
    /\ drilldownSection # Null
    /\ \E item \in Items(tableItems) : ~item.drillable

\* the number of Escapes that precede the closing one: one to leave the
\* search, one to leave the drill-down
EscapeRank ==
    (IF searchActive THEN 1 ELSE 0) + (IF mode = "drilldown" THEN 1 ELSE 0)

\* C27: from every reachable state a run of consecutive Escape key events
\* closes the overlay after at most three of them: handleInput handles
\* Escape in every state that is not closed (and the bound on the query
\* length does not concern it), an Escape with search inactive in mode
\* `sections` closes, and every other Escape does not close but leaves one
\* Escape fewer to go (at most two before the closing one).
C27_EscapeCloses ==
    /\ [](~closed => /\ KeyData("escape") \notin TypedChars
                      /\ ENABLED handleInput(KeyData("escape")))
    /\ [](EscapeRank <= 2)
    /\ [][KeyEvent(KeyData("escape")) =>
             IF EscapeRank = 0
             THEN closed'
             ELSE ~closed' /\ EscapeRank' = EscapeRank - 1]_vars

\* the first of three Escapes: it left a search opened inside a drill-down,
\* and two more are needed
C27_Witness ==
    /\ lastKey = Key("escape")
    /\ Before.searchActive
    /\ Before.mode = "drilldown"
    /\ ~searchActive
    /\ mode = "drilldown"
    /\ ~closed

\* ---------------------------------------------------------------------------
\* Order of the bar segments
\* ---------------------------------------------------------------------------

\* C28: buildBarSegments preserves the order of the weights: for every list
\* of sections and every barWidth >= number of sections, a section with
\* strictly more tokens than another is never given a smaller width.
C28_LargerNeverNarrower ==
    (BarReturned /\ barWidth >= Len(barSections)) =>
        \A i, j \in 1..Len(barSections) :
            barSections[i].tokens > barSections[j].tokens
                => BarWidths[i] >= BarWidths[j]

\* ---------------------------------------------------------------------------
\* Spans of the parsed sections
\* ---------------------------------------------------------------------------

\* C29: for every prompt the top-level sections measure pairwise
\* non-overlapping spans of the input, so that the sum of their chars never
\* exceeds totalChars, whatever the order and position of the anchors and of
\* the pi-docs marker lines.
C29_SectionCharsWithinTotal ==
    ParseReturned => SectionCharsSum <= parseResult[1].totalChars

\* ---------------------------------------------------------------------------
\* The context-window usage bar
\* ---------------------------------------------------------------------------
WindowReturned == windowBar # Null

\* C30: for every totalTokens >= 0 and every context window > 0 the usage
\* bar is drawn, with filled + empty = barWidth, 1 <= filled <= barWidth and
\* empty >= 0, also when the token count exceeds the context window; with no
\* context window supplied the bar is omitted.
C30_UsageBarFits ==
    WindowReturned =>
        LET usageBarWidth == Min(windowWidth, OVERLAY_WIDTH) - 2 - 4
            bar == windowBar[1]
        IN  /\ windowSize = Null => bar.outcome = "omitted"
            /\ (windowSize # Null /\ windowSize[1] > 0) =>
                   /\ bar.outcome = "bar"
                   /\ bar.filled + bar.empty = usageBarWidth
                   /\ 1 <= bar.filled
                   /\ bar.filled <= usageBarWidth
                   /\ bar.empty >= 0

====
